---- MODULE Spec2Model ----
(***************************************************************************)
(* Agent loop, tool registry and workspace path validation of the          *)
(* autonomous-agent framework (AutonomousAgent, ToolRegistry, BaseTool,    *)
(* PathValidator, create_path_validation_prehook).                         *)
(*                                                                         *)
(* Path strings are sequences of one-character strings, so that            *)
(* str.startswith, os.path.join and os.path.realpath are computed on the   *)
(* characters, as the code computes them.                                  *)
(***************************************************************************)
EXTENDS Integers, Sequences, FiniteSets, TLC

\* ------------------------------------------------------------------ bounds
MaxPathLen == 5      \* longest raw path string handed to validate
MaxTools == 3        \* most tool_uses in one completion response
MaxHistory == 5      \* most entries of conversation_history in a session
MaxRequests == 4     \* most tool_uses answered in a session
MaxCalls == 2        \* most tool invocations of one of two sessions
MaxContent == 4      \* most characters of a file a tool is called on
MaxTarget == 2       \* most characters of old_string and of new_string
MaxWrite == 6        \* most characters of the content of a write

\* ------------------------------------------------------------ the strings
Sep == "/"
Chars == {"/", ".", "w", "0", "e", "s"}

RECURSIVE StringsOfLen(_)
StringsOfLen(n) ==
    IF n = 0 THEN {<<>>}
    ELSE {Append(s, c) : s \in StringsOfLen(n - 1), c \in Chars}

StringsUpTo(n) == UNION {StringsOfLen(k) : k \in 0..n}

\* str.startswith(prefix)
StartsWith(s, prefix) ==
    /\ Len(prefix) <= Len(s)
    /\ SubSeq(s, 1, Len(prefix)) = prefix

\* str.split(os.sep): the components between separators, empty ones included
RECURSIVE SplitFrom(_, _, _)
SplitFrom(s, i, cur) ==
    IF i > Len(s) THEN <<cur>>
    ELSE IF s[i] = Sep THEN <<cur>> \o SplitFrom(s, i + 1, <<>>)
    ELSE SplitFrom(s, i + 1, Append(cur, s[i]))

Split(s) == SplitFrom(s, 1, <<>>)

\* os.path.join(a, b)
PathJoin(a, b) ==
    IF StartsWith(b, <<Sep>>) THEN b
    ELSE IF a = <<>> \/ a[Len(a)] = Sep THEN a \o b
    ELSE a \o <<Sep>> \o b

\* ------------------------------------------------------- the file system
\* A location is the sequence of the names from "/" down to it.
\* Directories /w (a workspace), /w0 (its sibling), /e (outside);
\* symbolic links /w/s -> /e (leaves the workspace), /s -> w (enters it).
Links == [p \in {<< <<"w">>, <<"s">> >>, << <<"s">> >>} |->
            IF p = << <<"s">> >> THEN <<"w">> ELSE <<"/", "e">>]

Parent(loc) == IF loc = <<>> THEN <<>> ELSE SubSeq(loc, 1, Len(loc) - 1)

\* posixpath._joinrealpath: walk the components, dropping "" and ".",
\* stepping up on "..", and following a symbolic link where one is met
RECURSIVE JoinRealPath(_, _)
JoinRealPath(loc, rest) ==
    IF rest = <<>> THEN loc
    ELSE LET name == Head(rest)
             more == Tail(rest)
             new  == Append(loc, name)
         IN  IF name = <<>> \/ name = <<".">> THEN JoinRealPath(loc, more)
             ELSE IF name = <<".", ".">> THEN JoinRealPath(Parent(loc), more)
             ELSE IF new \in DOMAIN Links
                  THEN LET target == Links[new]
                           from   == IF StartsWith(target, <<Sep>>) THEN <<>> ELSE loc
                       IN  JoinRealPath(JoinRealPath(from, Split(target)), more)
             ELSE JoinRealPath(new, more)

\* the string of a location
RECURSIVE Render(_)
Render(loc) ==
    IF loc = <<>> THEN <<Sep>>
    ELSE IF Len(loc) = 1 THEN <<Sep>> \o loc[1]
    ELSE Render(Parent(loc)) \o <<Sep>> \o loc[Len(loc)]

\* os.path.realpath of an absolute path string
RealPath(s) == Render(JoinRealPath(<<>>, Split(s)))

\* ------------------------------------------------------------- variables
VARIABLES
    workspace_dir,          \* PathValidator.workspace_dir
    path,                   \* the raw path handed to PathValidator.validate
    validated,              \* what that call did: raised SecurityError, or returned
    revalidated,            \* what validate did with the path it had returned
    conversation_history,   \* AutonomousAgent.conversation_history
    pc,                     \* where AutonomousAgent.run stands
    response,               \* the completion response of this iteration
    tool_results,           \* the tool_results list of this iteration
    lastCall,               \* what the latest ToolRegistry.execute call did
    dispatched,             \* the ids of the tool_uses of this response that
                            \* were handed to ToolRegistry.execute, in order
    iterations,             \* completions received in the current run
    failures,               \* completion calls that raised in the current run
    bash_input,             \* the input of the BashTool.execute call
    bash_pc,                \* where that call stands
    process,                \* the subprocess it created
    timeout_s,              \* the timeout it handed to asyncio.wait_for
    clock,                  \* milliseconds since the subprocess was created
    returned_at,            \* the clock when the call returned
    bash_result,            \* what the call returned
    histories,              \* of each session: the results its tools returned
    reached,                \* of each session: the locations its tools reached
    session,                \* whether the session is open or closed
    sandbox,                \* Context.sandbox: none, running or terminated
    sandbox_mounted,        \* Context.sandbox_mounted
    created,                \* the sandboxes created in the session
    mounts,                 \* the times the CSVs were mounted in the session
    sandbox_calls,          \* the sandbox tool calls made in the session
    enabled,                \* EvalRunner.enabled
    eval_tasks,             \* the _run_eval tasks created and not yet finished
    eval_saved,             \* the result files _run_eval has written
    eval_logged,            \* the failures _run_eval has logged
    tool_call,              \* a tool call on its own: the tool and its input
    tool_file,              \* the file at the call's file_path
    file_was,               \* that file before the call
    tool_out,               \* the result the call returned
    tool_done,              \* whether the call was made
    tool_raised,            \* whether the call raised instead of returning
    tools,                  \* ToolRegistry.tools: the tool under each name
    registered,             \* the tools handed to ToolRegistry.register, in order
    todos,                  \* TodoWriteTool.todos
    todos_was,              \* that list before the latest call
    todo_input,             \* the input of the latest TodoWrite call
    todo_out,               \* what that call returned
    notes,                  \* the file notes.txt of a workspace
    calls,                  \* the file tool calls made on it, in order
    outcomes,               \* what each of them returned
    events,                 \* the events a run of ResearchAgent has yielded, in order
    ev_pc,                  \* where that run is
    ev_left,                \* the tool_use blocks of its turn not yet executed
    ev_turn,                \* the iteration of its loop
    inputValue,             \* the text of the chat input
    serverState,            \* the server state the client was last told
    messages,               \* the messages the client displays
    sent,                   \* the texts sent over the WebSocket, in order
    attempts,               \* the calls of sendMessage
    containers,             \* the state of every container docker knows
    labelled,               \* the containers labelled run_id=$RUN_ID
    tracking,               \* the container tracking file of the run
    cleanup_log             \* the runs of cleanup-containers.sh so far

pathVars == <<workspace_dir, path, validated, revalidated>>
agentVars == <<conversation_history, pc, response, tool_results, lastCall,
               dispatched, iterations, failures>>
bashVars == <<bash_input, bash_pc, process, timeout_s, clock, returned_at,
              bash_result>>
vars == <<workspace_dir, path, validated, revalidated,
          conversation_history, pc, response,
          tool_results, lastCall, dispatched, iterations, failures,
          bash_input, bash_pc, process, timeout_s, clock, returned_at,
          bash_result, histories, reached, session, sandbox,
          sandbox_mounted, created, mounts, sandbox_calls,
          enabled, eval_tasks, eval_saved, eval_logged,
          tool_call, tool_file, file_was, tool_out, tool_done, tool_raised,
          tools, registered, todos, todos_was, todo_input, todo_out,
          notes, calls, outcomes,
          events, ev_pc, ev_left, ev_turn,
          inputValue, serverState, messages, sent, attempts,
          containers, labelled, tracking, cleanup_log>>
sessVars == <<histories, reached>>
lifeVars == <<session, sandbox, sandbox_mounted, created, mounts,
              sandbox_calls>>
evalVars == <<enabled, eval_tasks, eval_saved, eval_logged>>
toolVars == <<tool_call, tool_file, file_was, tool_out, tool_done,
              tool_raised>>
regVars == <<tools, registered>>
todoVars == <<todos, todos_was, todo_input, todo_out>>
noteVars == <<notes, calls, outcomes>>
eventVars == <<events, ev_pc, ev_left, ev_turn>>
chatVars == <<inputValue, serverState, messages, sent, attempts>>
cleanupVars == <<containers, labelled, tracking, cleanup_log>>

\* what the steps of one part leave alone: the variables of the other parts
exceptAgent ==
    <<pathVars, bashVars, sessVars, lifeVars, evalVars, toolVars,
      regVars, todoVars, noteVars, eventVars, chatVars, cleanupVars>>
exceptPath ==
    <<agentVars, bashVars, sessVars, lifeVars, evalVars, toolVars,
      regVars, todoVars, noteVars, eventVars, chatVars, cleanupVars>>
exceptBash ==
    <<pathVars, agentVars, sessVars, lifeVars, evalVars, toolVars,
      regVars, todoVars, noteVars, eventVars, chatVars, cleanupVars>>
exceptSess ==
    <<pathVars, agentVars, bashVars, lifeVars, evalVars, toolVars,
      regVars, todoVars, noteVars, eventVars, chatVars, cleanupVars>>
exceptLife ==
    <<pathVars, agentVars, bashVars, sessVars, evalVars, toolVars,
      regVars, todoVars, noteVars, eventVars, chatVars, cleanupVars>>
exceptTool ==
    <<pathVars, agentVars, bashVars, sessVars, lifeVars, evalVars,
      regVars, todoVars, noteVars, eventVars, chatVars, cleanupVars>>
exceptEval ==
    <<pathVars, agentVars, bashVars, sessVars, lifeVars, toolVars,
      regVars, todoVars, noteVars, eventVars, chatVars, cleanupVars>>
exceptReg ==
    <<pathVars, agentVars, bashVars, sessVars, lifeVars, evalVars, toolVars,
      todoVars, noteVars, eventVars, chatVars, cleanupVars>>
exceptTodo ==
    <<pathVars, agentVars, bashVars, sessVars, lifeVars, evalVars, toolVars,
      regVars, noteVars, eventVars, chatVars, cleanupVars>>
exceptNote ==
    <<pathVars, agentVars, bashVars, sessVars, lifeVars, evalVars, toolVars,
      regVars, todoVars, eventVars, chatVars, cleanupVars>>
exceptEvent ==
    <<pathVars, agentVars, bashVars, sessVars, lifeVars, evalVars,
      toolVars, regVars, todoVars, noteVars, chatVars, cleanupVars>>
exceptChat ==
    <<pathVars, agentVars, bashVars, sessVars, lifeVars, evalVars,
      toolVars, regVars, todoVars, noteVars, eventVars, cleanupVars>>
exceptCleanup ==
    <<pathVars, agentVars, bashVars, sessVars, lifeVars, evalVars,
      toolVars, regVars, todoVars, noteVars, eventVars, chatVars>>

\* the workspace directories a session is configured with
WorkspaceDirs == {<<"/", "w">>, <<"/", "s">>}

\* PathValidator.__init__
PathValidatorInit(dir) == RealPath(dir)

\* the containment test without the separator: a string prefix of the root
ContainedNoSep(resolved, ws) == StartsWith(resolved, ws)

\* the containment test of PathValidator.validate
Contained(resolved, ws) == StartsWith(resolved, ws \o <<Sep>>)

\* a validate that takes every path, absolute or not, as one below the root
ValidateUnderRoot(ws, p) ==
    LET resolved == RealPath(ws \o <<Sep>> \o p)
    IN  IF ~Contained(resolved, ws)
        THEN [called |-> TRUE, raised |-> TRUE, error |-> "SecurityError", value |-> resolved]
        ELSE [called |-> TRUE, raised |-> FALSE, error |-> "", value |-> resolved]

\* PathValidator.validate
Validate(ws, p) ==
    LET resolved == IF ~StartsWith(p, <<Sep>>)
                    THEN RealPath(PathJoin(ws, p))
                    ELSE RealPath(p)
    IN  IF ~Contained(resolved, ws)
        THEN [called |-> TRUE, raised |-> TRUE, error |-> "SecurityError", value |-> resolved]
        ELSE [called |-> TRUE, raised |-> FALSE, error |-> "", value |-> resolved]

NotCalled == [called |-> FALSE, raised |-> FALSE, error |-> "", value |-> <<>>]

RawPaths == StringsUpTo(MaxPathLen)

\* ------------------------------------------------------------- the tools
\* what the session's files are: /w/a inside the workspace, /e outside it
Files == {<< <<"w">>, <<"a">> >>, << <<"e">> >>}

\* the location open(), glob and ripgrep reach for a path string
Locate(ws, p) == JoinRealPath(<<>>, Split(PathJoin(ws, p)))

\* the tools of the registry (ToolRegistry._register_core_tools)
Tools == {"Bash", "Read", "Write", "Edit", "Glob", "Grep"}

\* the tools given the path validation prehook (set_prehook calls)
Prehooked == {"Read", "Write", "Edit"}

NoText == [msg |-> "", name |-> "", path |-> <<>>]
Envelope(msg, name, p, err) ==
    [content |-> [msg |-> msg, name |-> name, path |-> p], is_error |-> err]
NoResult == Envelope("", "", <<>>, FALSE)

Returned(result, touched) ==
    [raised |-> FALSE, error |-> "", result |-> result, touched |-> touched]
Raised(error) ==
    [raised |-> TRUE, error |-> error, result |-> NoResult, touched |-> {}]

\* BashTool.execute: input["command"] is read before the try block
BashExecute(ws, input) ==
    IF "command" \notin DOMAIN input THEN Raised("KeyError")
    ELSE Returned(Envelope("output", "Bash", input.command, FALSE), {})

\* ReadTool.execute, WriteTool.execute, EditTool.execute: input["file_path"]
\* is read before the try block; the file is opened where the path leads
FileExecute(name, ws, input) ==
    IF "file_path" \notin DOMAIN input THEN Raised("KeyError")
    ELSE LET loc == Locate(ws, input.file_path)
         IN  IF name = "Write" \/ loc \in Files
             THEN Returned(Envelope("ok", name, Render(loc), FALSE), {loc})
             ELSE Returned(Envelope("File not found", name, input.file_path, TRUE), {loc})

\* GlobTool.execute, GrepTool.execute: input["pattern"] is read before the
\* try block; the search runs under input.get("path", workspace_dir)
SearchExecute(name, ws, input) ==
    IF "pattern" \notin DOMAIN input THEN Raised("KeyError")
    ELSE LET search_path == IF "path" \in DOMAIN input THEN input.path ELSE ws
             loc == Locate(ws, search_path)
         IN  Returned(Envelope("matches", name, Render(loc), FALSE), {loc})

\* tool.execute(input) of the tool registered under a name
ToolExecute(name, ws, input) ==
    CASE name = "Bash" -> BashExecute(ws, input)
      [] name \in {"Read", "Write", "Edit"} -> FileExecute(name, ws, input)
      [] name \in {"Glob", "Grep"} -> SearchExecute(name, ws, input)
      [] OTHER -> Raised("KeyError")

\* the prehook made by create_path_validation_prehook: each of file_path and
\* path that is present is validated and replaced, in that order, in place
RECURSIVE PathHook(_, _, _)
PathHook(ws, input, params) ==
    IF params = <<>> THEN [raised |-> FALSE, message |-> NoText, input |-> input]
    ELSE LET param == Head(params)
         IN  IF param \notin DOMAIN input THEN PathHook(ws, input, Tail(params))
             ELSE LET v == Validate(ws, input[param])
                  IN  IF v.raised
                      THEN [raised |-> TRUE,
                            message |-> [msg |-> "Access denied", name |-> "access",
                                         path |-> v.value],
                            input |-> input]
                      ELSE PathHook(ws, [input EXCEPT ![param] = v.value], Tail(params))

HookParams == <<"file_path", "path">>

\* a registry whose set_prehook calls were left out
PrehookUnset(name, ws, input) ==
    [raised |-> FALSE, message |-> NoText, input |-> input]

\* BaseTool.prehook: the hook runs if one was set
Prehook(name, ws, input) ==
    IF name \in Prehooked
    THEN PathHook(ws, input, HookParams)
    ELSE [raised |-> FALSE, message |-> NoText, input |-> input]

\* a registry that looks the tool up without the membership test
UnknownToolUnchecked(tool_name) == FALSE

\* the membership test that opens ToolRegistry.execute
UnknownTool(tool_name) == tool_name \notin Tools

\* a registry without the except clause: the hook's error goes on up
RethrowPrehook(h) ==
    [raised |-> TRUE, error |-> "SecurityError", result |-> NoResult]

\* the except clause around the prehook: the error becomes a result
CatchPrehook(h) ==
    [raised |-> FALSE, error |-> "",
     result |-> [content |-> h.message, is_error |-> TRUE]]

\* a registry that hands the prehook a copy of the input
HandedOnCopied(input, h) == input

\* tool.prehook(input) and tool.execute(input) are given the same dict: what
\* the hook assigned to input[param] is what execute reads
HandedOn(input, h) == h.input

\* ToolRegistry.execute; the record says what the call did: whether it
\* raised, its result, the input as the prehook left it, whether a hook ran,
\* whether tool.execute ran and raised, the input it was given and the
\* locations the tool reached
RegistryExecute(tool_name, ws, input) ==
    IF UnknownTool(tool_name)
    THEN [raised |-> FALSE, error |-> "",
          result |-> Envelope("Unknown tool", tool_name, <<>>, TRUE),
          input |-> input, hookRan |-> FALSE, hookRaised |-> FALSE,
          executed |-> FALSE, received |-> [q |-> <<>>],
          toolRaised |-> FALSE, touched |-> {}]
    ELSE LET h == Prehook(tool_name, ws, input)
         IN  IF h.raised
             THEN LET c == CatchPrehook(h)
                  IN  [raised |-> c.raised, error |-> c.error, result |-> c.result,
                       input |-> h.input, hookRan |-> TRUE, hookRaised |-> TRUE,
                       executed |-> FALSE, received |-> [q |-> <<>>],
                       toolRaised |-> FALSE, touched |-> {}]
             ELSE LET given == HandedOn(input, h)
                      t == ToolExecute(tool_name, ws, given)
                  IN  [raised |-> t.raised, error |-> t.error, result |-> t.result,
                       input |-> h.input, hookRan |-> tool_name \in Prehooked,
                       hookRaised |-> FALSE,
                       executed |-> TRUE, received |-> given,
                       toolRaised |-> t.raised, touched |-> t.touched]

\* ------------------------------------------------------- the agent loop
\* the tool requests a completion response is made of
RequestKinds ==
    { [name |-> "Read", input |-> [file_path |-> <<"a">>]],
      [name |-> "Read", input |-> [file_path |-> <<".", ".", "/", "e">>]],
      [name |-> "Glob", input |-> [pattern |-> <<"*">>, path |-> <<"/", "e">>]],
      [name |-> "Bash", input |-> [description |-> <<"l", "s">>]],
      [name |-> "Nope", input |-> [q |-> <<"x">>]] }

RECURSIVE SeqsOfLen(_, _)
SeqsOfLen(S, n) ==
    IF n = 0 THEN {<<>>}
    ELSE {Append(q, x) : q \in SeqsOfLen(S, n - 1), x \in S}

\* the tool_use blocks of a response: the service numbers them
ToolUses(kinds) ==
    [i \in 1..Len(kinds) |-> [id |-> i, name |-> kinds[i].name, input |-> kinds[i].input]]

Responses ==
    {[text |-> "text", tool_uses |-> ToolUses(k)] :
        k \in UNION {SeqsOfLen(RequestKinds, n) : n \in 0..MaxTools}}

NoResponse == [text |-> "", tool_uses |-> <<>>]

NoCall == [called |-> FALSE, name |-> "", given |-> [q |-> <<>>],
           raised |-> FALSE, error |-> "", result |-> NoResult,
           input |-> [q |-> <<>>], hookRan |-> FALSE, hookRaised |-> FALSE,
           executed |-> FALSE, received |-> [q |-> <<>>],
           toolRaised |-> FALSE, touched |-> {}]

Content(text, uses, results) ==
    [text |-> text, tool_uses |-> uses, tool_results |-> results]

\* results collected at the front of the list
PrependResult(results, result) == <<result>> \o results

\* tool_results.append(result)
AppendResult(results, result) == Append(results, result)

\* the tool_uses the history holds
RECURSIVE Requested(_)
Requested(history) ==
    IF history = <<>> THEN 0
    ELSE Len(Head(history).content.tool_uses) + Requested(Tail(history))

\* ------------------- BashTool.execute, its subprocess and the clock
\* timeout_s = input.get("timeout", 120000) / 1000
DefaultTimeout == 120000

\* "Timeout in milliseconds (max 600000)" of the input schema
MaxTimeout == 600000

\* the shell commands of the model, how many milliseconds each runs and the
\* return code it exits with
Commands == {"true", "false", "sleep 200", "sleep 650", "sleep 900",
             "seq 9000", "seq 9000 >&2", "echo hello"}

Duration(command) ==
    CASE command = "sleep 200" -> 200000
      [] command = "sleep 650" -> 650000
      [] command = "sleep 900" -> 900000
      [] OTHER -> 0

ReturnCode(command) == IF command = "false" THEN 1 ELSE 0

\* the characters a command writes to stdout and to stderr
StdoutLen(command) ==
    CASE command = "seq 9000" -> 43893
      [] command = "echo hello" -> 6
      [] OTHER -> 0

StderrLen(command) == IF command = "seq 9000 >&2" THEN 43893 ELSE 0

\* "Truncate if too long (30k chars like Claude Code)"
OutputBudget == 30000

\* the timeouts a request may carry, in milliseconds: whole seconds, so that
\* the division by 1000 is exact
Timeouts == {100000, 200000, 600000, 700000}

BashInputs ==
    {[command |-> c] : c \in Commands}
        \cup {[command |-> c, timeout |-> t] : c \in Commands, t \in Timeouts}
        \cup {[description |-> "d"]}

TimeoutS(input) ==
    (IF "timeout" \in DOMAIN input THEN input.timeout ELSE DefaultTimeout)
        \div 1000

BashContent(msg, command, seconds) ==
    [msg |-> msg, command |-> command, timeout_s |-> seconds]

\* stdout.decode() + stderr.decode(), is_error from the return code; len is
\* the length of the content and marked whether it ends with a truncation
\* marker
Output(command) ==
    [content |-> [msg |-> "output", command |-> command, timeout_s |-> 0,
                  len |-> StdoutLen(command) + StderrLen(command),
                  marked |-> FALSE],
     is_error |-> ReturnCode(command) # 0]

\* f"Command timed out after {timeout_s}s"
TimedOut(seconds) ==
    [content |-> BashContent("Command timed out after", "", seconds),
     is_error |-> TRUE]

\* no BashTool.execute call has been made
NoInput == [command |-> ""]
NoBashResult == [content |-> BashContent("", "", 0), is_error |-> FALSE]
BashIdle ==
    /\ bash_input = NoInput
    /\ bash_pc = "Ready"
    /\ process = "none"
    /\ timeout_s = 0
    /\ clock = 0
    /\ returned_at = 0
    /\ bash_result = NoBashResult

\* ------------------------------------ sessions on the shared volume
\* one volume, one directory for each session on it
Sessions == {1, 2}
SessionDir(s) == IF s = 1 THEN <<"/", "w">> ELSE <<"/", "w", "0">>

\* no session has invoked a tool
NoSessions ==
    /\ histories = [s \in Sessions |-> <<>>]
    /\ reached = [s \in Sessions |-> {}]

\* no tool call on its own is under way
NoFile == [exists |-> FALSE, content |-> <<>>]
NoOut == [content |-> [msg |-> "", n |-> 0], is_error |-> "False"]
NoToolCall ==
    /\ tool_call = [tool |-> "", input |-> [file_path |-> <<>>]]
    /\ tool_file = NoFile
    /\ file_was = NoFile
    /\ tool_out = NoOut
    /\ tool_done = FALSE
    /\ tool_raised = FALSE

\* ToolRegistry.__init__: self.tools = {}
NoRegistry ==
    /\ tools = <<>>
    /\ registered = <<>>

\* TodoWriteTool.__init__: self.todos = []
NoTodos ==
    /\ todos = <<>>
    /\ todos_was = <<>>
    /\ todo_input = [todos |-> <<>>]
    /\ todo_out = NoOut

\* a fresh workspace: no notes.txt, no call made
FreshWorkspace ==
    /\ notes = NoFile
    /\ calls = <<>>
    /\ outcomes = <<>>

\* no run of ResearchAgent has been started
NoEvents ==
    /\ events = <<>>
    /\ ev_pc = "Idle"
    /\ ev_left = 0
    /\ ev_turn = 0

\* ChatBot as first rendered: useState([]), useState(''), useState(ServerState.IDLE)
NoChat ==
    /\ inputValue = <<>>
    /\ serverState = "idle"
    /\ messages = <<>>
    /\ sent = <<>>
    /\ attempts = 0

\* a host with no container and no tracking file, the script never run
NoCleanup ==
    /\ containers = [id \in {"a", "b"} |-> "absent"]
    /\ labelled = {}
    /\ tracking = [exists |-> FALSE, lines |-> <<>>, terminated |-> TRUE]
    /\ cleanup_log = <<>>

\* EvalRunner.__init__ without EVALS_ENABLED=1, and no eval submitted
EvalsOff ==
    /\ enabled = FALSE
    /\ eval_tasks = 0
    /\ eval_saved = 0
    /\ eval_logged = 0

\* Context.__init__: the session is open and has no sandbox yet
InitContext ==
    /\ session = "open"
    /\ sandbox = "none"
    /\ sandbox_mounted = FALSE
    /\ created = 0
    /\ mounts = 0
    /\ sandbox_calls = 0

\* AutonomousAgent.__init__: an empty history, no run under way
InitAgent ==
    /\ conversation_history = <<>>
    /\ pc = "Idle"
    /\ response = NoResponse
    /\ tool_results = <<>>
    /\ lastCall = NoCall
    /\ dispatched = <<>>
    /\ iterations = 0
    /\ failures = 0

\* a run that starts its history afresh instead of appending to it
RunFresh ==
    /\ pc \in {"Idle", "Raised", "Failed", "Cancelled"}
    /\ Len(conversation_history) < MaxHistory
    /\ conversation_history' =
           << [role |-> "user", content |-> Content("hello", <<>>, <<>>)] >>
    /\ pc' = "Requesting"
    /\ response' = NoResponse
    /\ tool_results' = <<>>
    /\ lastCall' = NoCall
    /\ dispatched' = <<>>
    /\ iterations' = 0
    /\ failures' = 0
    /\ UNCHANGED exceptAgent

\* run(user_message): the user message is appended and the loop entered
Run ==
    /\ pc \in {"Idle", "Raised", "Failed", "Cancelled"}
    /\ Len(conversation_history) < MaxHistory
    /\ conversation_history' =
           Append(conversation_history,
                  [role |-> "user", content |-> Content("hello", <<>>, <<>>)])
    /\ pc' = "Requesting"
    /\ response' = NoResponse
    /\ tool_results' = <<>>
    /\ lastCall' = NoCall
    /\ dispatched' = <<>>
    /\ iterations' = 0
    /\ failures' = 0
    /\ UNCHANGED exceptAgent

\* 1. response = await self.llm_client.complete(...)
Complete(r) ==
    /\ pc = "Requesting"
    /\ r.tool_uses # <<>> => Len(conversation_history) + 2 <= MaxHistory
    /\ Requested(conversation_history) + Len(r.tool_uses) <= MaxRequests
    /\ response' = r
    /\ pc' = "Streaming"
    /\ dispatched' = <<>>
    /\ iterations' = iterations + 1
    /\ UNCHANGED <<conversation_history, tool_results, lastCall, failures>>
    /\ UNCHANGED exceptAgent

\* 1. the awaited llm_client.complete raises: nothing in run catches it, so
\* the exception leaves run on the first failure
CompleteFails ==
    /\ pc = "Requesting"
    /\ pc' = "Failed"
    /\ failures' = failures + 1
    /\ response' = NoResponse
    /\ tool_results' = <<>>
    /\ lastCall' = NoCall
    /\ dispatched' = <<>>
    /\ UNCHANGED <<conversation_history, iterations>>
    /\ UNCHANGED exceptAgent

\* the caller cancels the run while it is suspended at an await or at the
\* yield: the exception leaves run and its locals are dropped
Cancel ==
    /\ pc \in {"Requesting", "Streaming", "Dispatching"}
    /\ pc' = "Cancelled"
    /\ response' = NoResponse
    /\ tool_results' = <<>>
    /\ lastCall' = NoCall
    /\ dispatched' = <<>>
    /\ UNCHANGED <<conversation_history, iterations, failures>>
    /\ UNCHANGED exceptAgent

\* an EvalRunner whose submit awaits _run_eval instead of creating a task
SubmitAwaited(on, tasks) ==
    [tasks |-> IF on THEN tasks + 1 ELSE tasks, awaited |-> on]

\* EvalRunner.submit: nothing when evals are off, else
\* asyncio.create_task(self._run_eval(...)), which does not suspend the caller
Submit(on, tasks) ==
    [tasks |-> IF on THEN tasks + 1 ELSE tasks, awaited |-> FALSE]

\* 2, 3. yield response.text; break when there are no tool_uses, after the
\* answer was submitted to the EvalRunner (self.evals.submit("answer", ...))
YieldText ==
    /\ pc = "Streaming"
    /\ IF response.tool_uses = <<>>
       THEN LET submitted == Submit(enabled, eval_tasks)
            IN  /\ eval_tasks' = submitted.tasks
                /\ pc' = IF submitted.awaited THEN "Evaluating" ELSE "Idle"
       ELSE /\ pc' = "Dispatching"
            /\ UNCHANGED eval_tasks
    /\ tool_results' = <<>>
    /\ UNCHANGED <<conversation_history, response, lastCall, dispatched,
                   iterations, failures>>
    /\ UNCHANGED <<enabled, eval_saved, eval_logged>>
    /\ UNCHANGED <<pathVars, bashVars, sessVars, lifeVars, toolVars,
                   regVars, todoVars, noteVars, eventVars, chatVars,
                   cleanupVars>>

\* 4. one turn of the for loop: result = await self.tools.execute(...)
ExecuteTool ==
    /\ pc = "Dispatching"
    /\ Len(tool_results) < Len(response.tool_uses)
    /\ LET i == Len(tool_results) + 1
           tool_use == response.tool_uses[i]
           call == RegistryExecute(tool_use.name, workspace_dir, tool_use.input)
       IN  /\ lastCall' = [called |-> TRUE, name |-> tool_use.name,
                           given |-> tool_use.input,
                           raised |-> call.raised, error |-> call.error,
                           result |-> call.result, input |-> call.input,
                           hookRan |-> call.hookRan, hookRaised |-> call.hookRaised,
                           executed |-> call.executed, received |-> call.received,
                           toolRaised |-> call.toolRaised, touched |-> call.touched]
           /\ response' = [response EXCEPT !.tool_uses[i].input = call.input]
           /\ dispatched' = Append(dispatched, tool_use.id)
           /\ IF call.raised
              THEN /\ pc' = "Raised"
                   /\ UNCHANGED tool_results
              ELSE /\ pc' = "Dispatching"
                   /\ tool_results' = AppendResult(tool_results, call.result)
    /\ UNCHANGED <<conversation_history, iterations, failures>>
    /\ UNCHANGED exceptAgent

\* a step 5 that appends the assistant content and leaves the results out
AppendRequestsOnly ==
    /\ pc = "Dispatching"
    /\ Len(tool_results) = Len(response.tool_uses)
    /\ conversation_history' =
           Append(conversation_history,
                  [role |-> "assistant",
                   content |-> Content(response.text, response.tool_uses, <<>>)])
    /\ pc' = "Requesting"
    /\ UNCHANGED <<response, tool_results, lastCall, dispatched, iterations,
                   failures>>
    /\ UNCHANGED exceptAgent

\* 5. the assistant content and the tool results are appended
AppendTurns ==
    /\ pc = "Dispatching"
    /\ Len(tool_results) = Len(response.tool_uses)
    /\ conversation_history' =
           conversation_history \o
           << [role |-> "assistant",
               content |-> Content(response.text, response.tool_uses, <<>>)],
              [role |-> "user",
               content |-> Content("", <<>>, tool_results)] >>
    /\ pc' = "Requesting"
    /\ UNCHANGED <<response, tool_results, lastCall, dispatched, iterations,
                   failures>>
    /\ UNCHANGED exceptAgent

Init ==
    /\ workspace_dir \in {PathValidatorInit(d) : d \in WorkspaceDirs}
    /\ path = <<>>
    /\ validated = NotCalled
    /\ revalidated = NotCalled
    /\ InitAgent
    /\ BashIdle
    /\ NoSessions
    /\ InitContext
    /\ NoToolCall
    /\ NoRegistry
    /\ NoTodos
    /\ FreshWorkspace
    /\ NoCleanup
    /\ NoChat
    /\ NoEvents
    /\ EvalsOff

Next ==
    \/ Run
    \/ \E r \in Responses : Complete(r)
    \/ CompleteFails
    \/ Cancel
    \/ YieldText
    \/ ExecuteTool
    \/ AppendTurns

Spec == Init /\ [][Next]_vars

\* ------------------------------------------ PathValidator.validate alone
InitPath ==
    /\ workspace_dir \in {PathValidatorInit(d) : d \in WorkspaceDirs}
    /\ path \in RawPaths
    /\ validated = NotCalled
    /\ revalidated = NotCalled
    /\ InitAgent
    /\ BashIdle
    /\ NoSessions
    /\ InitContext
    /\ NoToolCall
    /\ NoRegistry
    /\ NoTodos
    /\ FreshWorkspace
    /\ NoCleanup
    /\ NoChat
    /\ NoEvents
    /\ EvalsOff

CallValidate ==
    /\ ~validated.called
    /\ validated' = Validate(workspace_dir, path)
    /\ UNCHANGED <<workspace_dir, path, revalidated>>
    /\ UNCHANGED exceptPath

\* validate called again, on the path the first call returned
CallValidateAgain ==
    /\ validated.called
    /\ ~validated.raised
    /\ ~revalidated.called
    /\ revalidated' = Validate(workspace_dir, validated.value)
    /\ UNCHANGED <<workspace_dir, path, validated>>
    /\ UNCHANGED exceptPath

NextPath == CallValidate \/ CallValidateAgain

SpecPath == InitPath /\ [][NextPath]_vars

\* ------------------------------------------ BashTool.execute alone
InitBash ==
    /\ workspace_dir \in {PathValidatorInit(d) : d \in WorkspaceDirs}
    /\ path = <<>>
    /\ validated = NotCalled
    /\ revalidated = NotCalled
    /\ InitAgent
    /\ bash_input \in BashInputs
    /\ bash_pc = "Ready"
    /\ process = "none"
    /\ timeout_s = 0
    /\ clock = 0
    /\ returned_at = 0
    /\ bash_result = NoBashResult
    /\ NoSessions
    /\ InitContext
    /\ NoToolCall
    /\ NoRegistry
    /\ NoTodos
    /\ FreshWorkspace
    /\ NoCleanup
    /\ NoChat
    /\ NoEvents
    /\ EvalsOff

\* command = input["command"]; timeout_s = ...; create_subprocess_shell(...)
CreateSubprocess ==
    /\ bash_pc = "Ready"
    /\ session = "open"
    /\ IF "command" \notin DOMAIN bash_input
       THEN /\ bash_pc' = "Raised"
            /\ UNCHANGED <<process, timeout_s>>
       ELSE /\ bash_pc' = "Waiting"
            /\ process' = "running"
            /\ timeout_s' = TimeoutS(bash_input)
    /\ UNCHANGED <<bash_input, clock, returned_at, bash_result>>
    /\ UNCHANGED exceptBash

\* the command runs to its end; while execute waits for it this happens
\* only if the timeout has not passed before
ProcessExits ==
    /\ process = "running"
    /\ bash_pc = "Waiting" => Duration(bash_input.command) <= timeout_s * 1000
    /\ process' = "exited"
    /\ clock' = Duration(bash_input.command)
    /\ UNCHANGED <<bash_input, bash_pc, timeout_s, returned_at, bash_result>>
    /\ UNCHANGED exceptBash

\* process.communicate() returns inside the timeout
CommunicateReturns ==
    /\ bash_pc = "Waiting"
    /\ process = "exited"
    /\ bash_result' = Output(bash_input.command)
    /\ bash_pc' = "Returned"
    /\ returned_at' = clock
    /\ UNCHANGED <<bash_input, process, timeout_s, clock>>
    /\ UNCHANGED exceptBash

\* asyncio.wait_for raises TimeoutError: communicate() is cancelled, the
\* except clause builds the result; no statement ends the subprocess
TimeoutFires ==
    /\ bash_pc = "Waiting"
    /\ timeout_s * 1000 <= Duration(bash_input.command)
    /\ clock' = IF process = "running" THEN timeout_s * 1000 ELSE clock
    /\ bash_result' = TimedOut(timeout_s)
    /\ bash_pc' = "Returned"
    /\ returned_at' = clock'
    /\ UNCHANGED <<bash_input, process, timeout_s>>
    /\ UNCHANGED exceptBash

\* the run that awaits execute is cancelled: CancelledError is not an
\* Exception that execute catches, and no statement ends the subprocess
CancelBash ==
    /\ bash_pc = "Waiting"
    /\ bash_pc' = "Cancelled"
    /\ UNCHANGED <<bash_input, process, timeout_s, clock, returned_at,
                   bash_result>>
    /\ UNCHANGED exceptBash

NextBash ==
    \/ CreateSubprocess
    \/ ProcessExits
    \/ CommunicateReturns
    \/ TimeoutFires
    \/ CancelBash

SpecBash == InitBash /\ [][NextBash]_vars

\* ----------------------------- the agent with the EvalRunner attached
\* the responses of this specification: at most one tool request each
EvalResponses == {r \in Responses : Len(r.tool_uses) <= 1}

InitEvals ==
    /\ workspace_dir \in {PathValidatorInit(d) : d \in WorkspaceDirs}
    /\ path = <<>>
    /\ validated = NotCalled
    /\ revalidated = NotCalled
    /\ InitAgent
    /\ BashIdle
    /\ NoSessions
    /\ InitContext
    /\ NoToolCall
    /\ NoRegistry
    /\ NoTodos
    /\ FreshWorkspace
    /\ NoCleanup
    /\ NoChat
    /\ NoEvents
    /\ enabled \in BOOLEAN
    /\ eval_tasks = 0
    /\ eval_saved = 0
    /\ eval_logged = 0

\* _run_eval runs to its end: the evaluator answered, the result file is
\* written under .evals
EvalSaves ==
    /\ eval_tasks > 0
    /\ eval_tasks' = eval_tasks - 1
    /\ eval_saved' = eval_saved + 1
    /\ UNCHANGED <<enabled, eval_logged>>
    /\ UNCHANGED exceptEval

\* something inside _run_eval raised an Exception: the except clause logs it
EvalFails ==
    /\ eval_tasks > 0
    /\ eval_tasks' = eval_tasks - 1
    /\ eval_logged' = eval_logged + 1
    /\ UNCHANGED <<enabled, eval_saved>>
    /\ UNCHANGED exceptEval

NextEvals ==
    \/ Run
    \/ \E r \in EvalResponses : Complete(r)
    \/ CompleteFails
    \/ Cancel
    \/ YieldText
    \/ ExecuteTool
    \/ AppendTurns
    \/ EvalSaves
    \/ EvalFails

SpecEvals == InitEvals /\ [][NextEvals]_vars

\* ------------------------- the session's Context and its sandbox
MaxSandboxCalls == 3

\* a tool that creates a sandbox at every call
EnsureSandboxAnew(ctx) ==
    [sandbox |-> "running", mounted |-> TRUE,
     created |-> ctx.created + 1, mounts |-> ctx.mounts + 1]

\* "Check context.sandbox for existing sandbox. If missing: create new
\* sandbox. If first creation: mount all CSVs" (mount_csvs_to_sandbox sets
\* context.sandbox_mounted)
EnsureSandbox(ctx) ==
    IF ctx.sandbox = "none"
    THEN [sandbox |-> "running", mounted |-> TRUE,
          created |-> ctx.created + 1, mounts |-> ctx.mounts + 1]
    ELSE ctx

\* the fields of the Context that a sandbox tool reads and sets
SandboxContext ==
    [sandbox |-> sandbox, mounted |-> sandbox_mounted,
     created |-> created, mounts |-> mounts]

\* sandbox_exec and sandbox_write_file: the sandbox is made sure of first
\* ("Ensure sandbox exists (create if needed)"), then used
SandboxCall(tool) ==
    /\ session = "open"
    /\ sandbox_calls < MaxSandboxCalls
    /\ LET ctx == EnsureSandbox(SandboxContext)
       IN  /\ sandbox' = ctx.sandbox
           /\ sandbox_mounted' = ctx.mounted
           /\ created' = ctx.created
           /\ mounts' = ctx.mounts
    /\ sandbox_calls' = sandbox_calls + 1
    /\ UNCHANGED session
    /\ UNCHANGED exceptLife

\* a sandbox_exec call
SandboxExec == SandboxCall("sandbox_exec")

\* a sandbox_write_file call
SandboxWrite == SandboxCall("sandbox_write_file")

\* Context.cleanup at the end of the session, after the run is over or was
\* cancelled: sandbox.terminate() is called if there is a sandbox, and an
\* exception it raises is passed over; nothing else is released
Cleanup ==
    /\ session = "open"
    /\ bash_pc # "Waiting"
    /\ session' = "closed"
    /\ \E terminated \in BOOLEAN :
           sandbox' = IF sandbox = "running" /\ terminated
                      THEN "terminated" ELSE sandbox
    /\ UNCHANGED <<sandbox_mounted, created, mounts, sandbox_calls>>
    /\ UNCHANGED exceptLife

\* the platform ends a sandbox whose timeout has passed
AutoTerminate ==
    /\ sandbox = "running"
    /\ sandbox' = "terminated"
    /\ UNCHANGED <<session, sandbox_mounted, created, mounts, sandbox_calls>>
    /\ UNCHANGED exceptLife

NextLifecycle ==
    \/ NextBash
    \/ SandboxExec
    \/ SandboxWrite
    \/ Cleanup
    \/ AutoTerminate

SpecLifecycle == InitBash /\ [][NextLifecycle]_vars

\* --------------------------------- two sessions, each with its registry
\* the tool requests of a session: files and searches in its own directory
\* and in the directories of both sessions by their absolute paths
SessionRequests ==
    { [name |-> "Read", input |-> [file_path |-> <<"a">>]],
      [name |-> "Write", input |-> [file_path |-> <<"/", "w", "/", "a">>]],
      [name |-> "Write", input |-> [file_path |-> <<"/", "w", "0", "/", "a">>]],
      [name |-> "Glob", input |-> [pattern |-> <<"*">>]],
      [name |-> "Glob", input |-> [pattern |-> <<"*">>, path |-> <<"/", "w">>]],
      [name |-> "Grep", input |-> [pattern |-> <<"*">>, path |-> <<"/", "w", "0">>]] }

InitSessions ==
    /\ workspace_dir \in {PathValidatorInit(d) : d \in WorkspaceDirs}
    /\ path = <<>>
    /\ validated = NotCalled
    /\ revalidated = NotCalled
    /\ InitAgent
    /\ BashIdle
    /\ NoSessions
    /\ InitContext
    /\ NoToolCall
    /\ NoRegistry
    /\ NoTodos
    /\ FreshWorkspace
    /\ NoCleanup
    /\ NoChat
    /\ NoEvents
    /\ EvalsOff

\* a session's agent hands a tool request to its own registry, whose tools
\* were made for the session's directory
SessionInvoke(s, request) ==
    /\ Len(histories[s]) < MaxCalls
    /\ LET call == RegistryExecute(request.name,
                                   PathValidatorInit(SessionDir(s)), request.input)
       IN  /\ ~call.raised
           /\ histories' = [histories EXCEPT ![s] = Append(@, call.result)]
           /\ reached' = [reached EXCEPT ![s] = @ \cup call.touched]
    /\ UNCHANGED exceptSess

NextSessions ==
    \E s \in Sessions, request \in SessionRequests : SessionInvoke(s, request)

SpecSessions == InitSessions /\ [][NextSessions]_vars
\* ------------------------------------------- the tools, one call each
\* file contents and the strings of an edit are words over two letters
Letters == {"a", "b"}

RECURSIVE WordsOfLen(_)
WordsOfLen(n) ==
    IF n = 0 THEN {<<>>}
    ELSE {<<c>> \o w : c \in Letters, w \in WordsOfLen(n - 1)}

WordsUpTo(n) == UNION {WordsOfLen(k) : k \in 0..n}

\* t stands in s at position i
MatchAt(s, t, i) ==
    /\ i + Len(t) - 1 <= Len(s)
    /\ SubSeq(s, i, i + Len(t) - 1) = t

\* old_string in content
Contains(s, t) == \E i \in 1..(Len(s) + 1) : MatchAt(s, t, i)

\* content.count(old_string) from position i on: str.count goes from left to
\* right and resumes after the end of each match, so matches do not overlap
RECURSIVE CountFrom(_, _, _)
CountFrom(s, t, i) ==
    IF i + Len(t) - 1 > Len(s) THEN 0
    ELSE IF MatchAt(s, t, i) THEN 1 + CountFrom(s, t, i + Len(t))
         ELSE CountFrom(s, t, i + 1)

Count(s, t) == CountFrom(s, t, 1)

\* content.replace(old_string, new_string, n) from position i on; n < 0
\* replaces every match, as str.replace without a count does
RECURSIVE ReplaceFrom(_, _, _, _, _)
ReplaceFrom(s, t, u, i, n) ==
    IF n = 0 \/ i + Len(t) - 1 > Len(s) THEN SubSeq(s, i, Len(s))
    ELSE IF MatchAt(s, t, i)
         THEN u \o ReplaceFrom(s, t, u, i + Len(t), n - 1)
         ELSE <<s[i]>> \o ReplaceFrom(s, t, u, i + 1, n)

\* content.replace(old_string, new_string, 1)
ReplaceOnce(s, t, u) == ReplaceFrom(s, t, u, 1, 1)

\* a replace that stops after the second occurrence
ReplaceTwice(s, t, u) == ReplaceFrom(s, t, u, 1, 2)

\* content.replace(old_string, new_string)
ReplaceAll(s, t, u) == ReplaceFrom(s, t, u, 1, -1)

Out(msg, n, err) == [content |-> [msg |-> msg, n |-> n], is_error |-> err]

\* EditTool.execute on the file at file_path; is_error holds the name of
\* the Python value the code puts there
EditExecute(file, input) ==
    LET old_string == input.old_string
        new_string == input.new_string
        replace_all == IF "replace_all" \in DOMAIN input
                       THEN input.replace_all ELSE FALSE
    IN  IF ~file.exists
        THEN [out |-> Out("File not found", 0, "True"), file |-> file]
        ELSE IF ~Contains(file.content, old_string)
        THEN [out |-> Out("String not found in file", 0, "True"), file |-> file]
        ELSE IF ~replace_all /\ Count(file.content, old_string) > 1
        THEN [out |-> Out("String appears n times",
                          Count(file.content, old_string), "True"),
              file |-> file]
        ELSE [out |-> Out("The file has been updated", 0, "False"),
              file |-> [exists |-> TRUE,
                        content |-> IF replace_all
                                    THEN ReplaceAll(file.content, old_string, new_string)
                                    ELSE ReplaceOnce(file.content, old_string, new_string)]]

\* the files a tool may find at its file_path: none, or one with a content
ToolFiles ==
    {NoFile} \cup {[exists |-> TRUE, content |-> w] : w \in WordsUpTo(MaxContent)}

\* the old_string of an edit is not empty
Targets == WordsUpTo(MaxTarget) \ {<<>>}

EditInputs ==
    {[file_path |-> <<"a">>, old_string |-> t, new_string |-> u] :
        t \in Targets, u \in WordsUpTo(MaxTarget)}
    \cup {[file_path |-> <<"a">>, old_string |-> t, new_string |-> u,
           replace_all |-> r] :
        t \in Targets, u \in WordsUpTo(MaxTarget), r \in BOOLEAN}

EditCalls ==
    {[call |-> [tool |-> "Edit", input |-> i], file |-> f] :
        i \in EditInputs, f \in ToolFiles}

\* a write that tests for the file after it has written it
WriteExecuteTestsLate(file, input) ==
    [out |-> Out("File updated successfully", 0, "False"),
     file |-> [exists |-> TRUE, content |-> input.content]]

\* WriteTool.execute on the file at file_path: the parent directories are
\* made, the file is opened for writing and the content written, whatever
\* its size
WriteExecute(file, input) ==
    [out |-> Out(IF file.exists THEN "File updated successfully"
                 ELSE "File created successfully", 0, "False"),
     file |-> [exists |-> TRUE, content |-> input.content]]

\* "Validate content size < 5MB"; a character of the model stands for a
\* megabyte
SizeCap == 5

\* "/tmp/" and "/workspace/"
SandboxRoots ==
    { <<"/", "t", "m", "p", "/">>,
      <<"/", "w", "o", "r", "k", "s", "p", "a", "c", "e", "/">> }

\* sandbox_write_file: the path and the size are validated before the
\* sandbox is reached and the content written
SandboxWriteFile(file, input) ==
    IF \A root \in SandboxRoots : ~StartsWith(input.file_path, root)
    THEN [out |-> Out("Invalid path: must be /tmp/* or /workspace/*", 0, "True"),
          file |-> file]
    ELSE IF ~(Len(input.content) < SizeCap)
    THEN [out |-> Out("content size", Len(input.content), "True"), file |-> file]
    ELSE [out |-> Out("success", Len(input.content), "False"),
          file |-> [exists |-> TRUE, content |-> input.content]]

WriteInputs ==
    {[file_path |-> p, content |-> w] :
        p \in { <<"a">>, <<"/", "t", "m", "p", "/", "a">>, <<"/", "e", "/", "a">> },
        w \in WordsUpTo(MaxWrite)}

WriteCalls ==
    {[call |-> [tool |-> t, input |-> i], file |-> f] :
        t \in {"Write", "sandbox_write_file"}, i \in WriteInputs,
        f \in {NoFile, [exists |-> TRUE, content |-> <<"a", "b">>]}}

\* the patterns of a search: one that matches the file "a", one that
\* matches nothing, and one that is malformed (an unclosed bracket)
Patterns == {<<"a">>, <<"z">>, <<"[">>}

\* glob_module.glob(full_pattern, recursive=True): the paths that match; an
\* unclosed bracket is taken as an ordinary character and raises nothing
GlobMatches(pattern) == IF pattern = <<"a">> THEN {<<"a">>} ELSE {}

\* the exit code of rg: 0 with matches, 1 without, 2 for a regex it
\* cannot parse
RgReturnCode(pattern) ==
    CASE pattern = <<"a">> -> 0
      [] pattern = <<"[">> -> 2
      [] OTHER -> 1

\* GlobTool.execute
GlobExecute(input) ==
    LET matches == GlobMatches(input.pattern)
    IN  IF matches = {}
        THEN Out("No files found", 0, "None")
        ELSE Out("matches", Cardinality(matches), "False")

\* GrepTool.execute
GrepExecute(input) ==
    LET returncode == RgReturnCode(input.pattern)
    IN  IF returncode = 1 THEN Out("No matches found", 0, "None")
        ELSE IF returncode # 0 THEN Out("stderr", returncode, "True")
        ELSE Out("output", 0, "False")

SearchInputs ==
    {[pattern |-> p] : p \in Patterns}
        \cup {[pattern |-> p, path |-> <<"/", "w">>] : p \in Patterns}

SearchCalls ==
    {[call |-> [tool |-> t, input |-> i], file |-> NoFile] :
        t \in {"Glob", "Grep"}, i \in SearchInputs}

\* ------------------------------------------------------------ ReadTool

MaxRead == 6         \* most characters of a file that is read

NL == "\n"
Space == " "
\* the character that the format string puts after the line number
Arrow == ">"

\* "Truncate lines > 2000 chars": the model cuts at LineCap characters, so
\* that a file of a few characters has lines on both sides of the cap
LineCap == 5

\* input.get("limit", 2000)
DefaultLimit == 2000

\* f.readlines(): the lines of the file, each with the newline that ends it
RECURSIVE ReadLinesFrom(_, _, _)
ReadLinesFrom(s, i, cur) ==
    IF i > Len(s) THEN (IF cur = <<>> THEN <<>> ELSE <<cur>>)
    ELSE IF s[i] = NL THEN <<Append(cur, NL)>> \o ReadLinesFrom(s, i + 1, <<>>)
    ELSE ReadLinesFrom(s, i + 1, Append(cur, s[i]))

ReadLines(s) == ReadLinesFrom(s, 1, <<>>)

\* the decimal digits of a natural number
DigitChars == <<"0", "1", "2", "3", "4", "5", "6", "7", "8", "9">>
RECURSIVE Digits(_)
Digits(i) ==
    IF i < 10 THEN <<DigitChars[i + 1]>>
    ELSE Digits(i \div 10) \o <<DigitChars[(i % 10) + 1]>>

\* the format {i:6d}: the digits, right-aligned in six columns
RECURSIVE PadLeft(_, _)
PadLeft(s, width) == IF Len(s) >= width THEN s ELSE PadLeft(<<Space>> \o s, width)

\* line[:2000] + "... (line truncated)\n" for a line over the cap
CutLine(line) ==
    IF Len(line) > LineCap
    THEN SubSeq(line, 1, LineCap) \o <<"... (line truncated)", NL>>
    ELSE line

\* a line numbered from zero
NumberedFromZero(i, line) == PadLeft(Digits(i - 1), 6) \o <<Arrow>> \o CutLine(line)

\* f"{i:6d}->{line}" after the cut
Numbered(i, line) == PadLeft(Digits(i), 6) \o <<Arrow>> \o CutLine(line)

\* lines[offset:offset + limit], enumerate(..., start=offset + 1), "".join
RECURSIVE JoinNumbered(_, _, _)
JoinNumbered(lines, i, last) ==
    IF i > last THEN <<>>
    ELSE Numbered(i, lines[i]) \o JoinNumbered(lines, i + 1, last)

ReadOut(msg, n, text, err) ==
    [content |-> [msg |-> msg, n |-> n, text |-> text], is_error |-> err]

Min(a, b) == IF a < b THEN a ELSE b

\* ReadTool.execute on the file at file_path
ReadExecute(file, input) ==
    LET offset == IF "offset" \in DOMAIN input THEN input.offset ELSE 0
        limit  == IF "limit" \in DOMAIN input THEN input.limit ELSE DefaultLimit
    IN  IF ~file.exists
        THEN ReadOut("File not found", 0, <<>>, "True")
        ELSE LET lines == ReadLines(file.content)
                 last  == Min(offset + limit, Len(lines))
                 content == JoinNumbered(lines, offset + 1, last)
             IN  IF content = <<>>
                 THEN ReadOut("This file exists but is empty", 0, <<>>, "False")
                 ELSE ReadOut("lines", last - offset, content, "False")

ReadChars == {"a", NL}
RECURSIVE TextsOfLen(_)
TextsOfLen(n) ==
    IF n = 0 THEN {<<>>}
    ELSE {Append(s, c) : s \in TextsOfLen(n - 1), c \in ReadChars}

ReadFiles ==
    {NoFile} \cup {[exists |-> TRUE, content |-> w] :
                      w \in UNION {TextsOfLen(k) : k \in 0..MaxRead}}

ReadInputs ==
    {[file_path |-> <<"a">>]}
        \cup {[file_path |-> <<"a">>, offset |-> k] : k \in 0..2}
        \cup {[file_path |-> <<"a">>, limit |-> n] : n \in 1..2}
        \cup {[file_path |-> <<"a">>, offset |-> k, limit |-> n] :
                 k \in 0..2, n \in 1..2}

ReadCalls ==
    {[call |-> [tool |-> "Read", input |-> i], file |-> f] :
        i \in ReadInputs, f \in ReadFiles}

\* MCPToolProxy.name
ProxyName(mcp_name, tool_name) == "mcp__" \o mcp_name \o "__" \o tool_name

\* the wrapped function of the proxy: it answers a query, and raises for
\* one it cannot run
ToolFnRaises(input) == input.query = <<"b">>

\* MCPToolProxy.execute: result = await self.tool_fn(input), with nothing
\* around it
ProxyExecute(input) ==
    IF ToolFnRaises(input)
    THEN [raised |-> TRUE, out |-> NoOut]
    ELSE [raised |-> FALSE, out |-> Out("result", 0, "False")]

ProxyCalls ==
    {[call |-> [tool |-> ProxyName("bigquery", "query"), input |-> [query |-> q]],
      file |-> NoFile] : q \in {<<"a">>, <<"b">>}}

ToolCalls ==
    EditCalls \cup WriteCalls \cup SearchCalls \cup ProxyCalls \cup ReadCalls

InitTools ==
    /\ workspace_dir \in {PathValidatorInit(d) : d \in WorkspaceDirs}
    /\ path = <<>>
    /\ validated = NotCalled
    /\ revalidated = NotCalled
    /\ InitAgent
    /\ BashIdle
    /\ NoSessions
    /\ InitContext
    /\ EvalsOff
    /\ \E c \in ToolCalls :
           /\ tool_call = c.call
           /\ tool_file = c.file
           /\ file_was = c.file
    /\ tool_out = NoOut
    /\ tool_done = FALSE
    /\ tool_raised = FALSE
    /\ NoRegistry
    /\ NoTodos
    /\ FreshWorkspace
    /\ NoCleanup
    /\ NoChat
    /\ NoEvents

\* the call to EditTool.execute
CallEdit ==
    /\ ~tool_done
    /\ tool_call.tool = "Edit"
    /\ LET done == EditExecute(tool_file, tool_call.input)
       IN  /\ tool_out' = done.out
           /\ tool_file' = done.file
    /\ tool_done' = TRUE
    /\ tool_raised' = FALSE
    /\ UNCHANGED <<tool_call, file_was>>
    /\ UNCHANGED exceptTool

\* the call to WriteTool.execute
CallWrite ==
    /\ ~tool_done
    /\ tool_call.tool = "Write"
    /\ LET done == WriteExecute(tool_file, tool_call.input)
       IN  /\ tool_out' = done.out
           /\ tool_file' = done.file
    /\ tool_done' = TRUE
    /\ tool_raised' = FALSE
    /\ UNCHANGED <<tool_call, file_was>>
    /\ UNCHANGED exceptTool

\* the call to sandbox_write_file
CallSandboxWrite ==
    /\ ~tool_done
    /\ tool_call.tool = "sandbox_write_file"
    /\ LET done == SandboxWriteFile(tool_file, tool_call.input)
       IN  /\ tool_out' = done.out
           /\ tool_file' = done.file
    /\ tool_done' = TRUE
    /\ tool_raised' = FALSE
    /\ UNCHANGED <<tool_call, file_was>>
    /\ UNCHANGED exceptTool

\* the call to GlobTool.execute or to GrepTool.execute
CallSearch ==
    /\ ~tool_done
    /\ tool_call.tool \in {"Glob", "Grep"}
    /\ tool_out' = IF tool_call.tool = "Glob"
                   THEN GlobExecute(tool_call.input)
                   ELSE GrepExecute(tool_call.input)
    /\ tool_done' = TRUE
    /\ tool_raised' = FALSE
    /\ UNCHANGED <<tool_call, tool_file, file_was>>
    /\ UNCHANGED exceptTool

\* the call to MCPToolProxy.execute
CallProxy ==
    /\ ~tool_done
    /\ tool_call.tool = ProxyName("bigquery", "query")
    /\ LET done == ProxyExecute(tool_call.input)
       IN  /\ tool_out' = done.out
           /\ tool_raised' = done.raised
    /\ tool_done' = TRUE
    /\ UNCHANGED <<tool_call, tool_file, file_was>>
    /\ UNCHANGED exceptTool

\* the call to ReadTool.execute
CallRead ==
    /\ ~tool_done
    /\ tool_call.tool = "Read"
    /\ tool_out' = ReadExecute(tool_file, tool_call.input)
    /\ tool_done' = TRUE
    /\ tool_raised' = FALSE
    /\ UNCHANGED <<tool_call, tool_file, file_was>>
    /\ UNCHANGED exceptTool

NextTools ==
    \/ CallEdit
    \/ CallRead
    \/ CallProxy
    \/ CallSearch
    \/ CallWrite
    \/ CallSandboxWrite

SpecTools == InitTools /\ [][NextTools]_vars

\* ---------------------------------------------------------------- claims
\* the workspace root as a location, and the location a raw path denotes:
\* a relative path starts from the root, "." and ".." and links are followed
RootLoc == JoinRealPath(<<>>, Split(workspace_dir))
Denoted(p) ==
    JoinRealPath(IF StartsWith(p, <<Sep>>) THEN <<>> ELSE RootLoc, Split(p))

\* a location is the root or below it, name by name
Within(loc, root) ==
    /\ Len(root) <= Len(loc)
    /\ \A i \in 1..Len(root) : loc[i] = root[i]

\* C1: validate raises SecurityError exactly when the location the raw path
\* denotes is not inside the workspace root (the root or a descendant of
\* it), and otherwise returns the canonical path of that location.
C1_PathContainment ==
    validated.called =>
        /\ validated.raised <=> ~Within(Denoted(path), RootLoc)
        /\ validated.raised => validated.error = "SecurityError"
        /\ ~validated.raised => validated.value = Render(Denoted(path))

ResultTurns == {k \in 1..Len(conversation_history) :
                    conversation_history[k].content.tool_results # <<>>}

\* the result ToolRegistry.execute gives for a tool_use
ResultOf(tool_use) ==
    RegistryExecute(tool_use.name, workspace_dir, tool_use.input).result

\* C2: when the tool's own execute raises, ToolRegistry.execute returns an
\* error result and does not raise, and the run sees no exception.
C2_ToolRaiseBecomesResult ==
    lastCall.toolRaised =>
        /\ ~lastCall.raised
        /\ lastCall.result.is_error
        /\ pc # "Raised"

\* C3: the results of a turn stand in the order of its requests: the i-th
\* result collected, and the i-th result appended to the history, is the
\* result of the i-th tool_use of the turn.
C3_ResultsInRequestOrder ==
    /\ pc = "Dispatching" =>
          /\ Len(tool_results) <= Len(response.tool_uses)
          /\ \A i \in 1..Len(tool_results) :
                 tool_results[i] = ResultOf(response.tool_uses[i])
    /\ \A k \in ResultTurns :
          /\ k > 1
          /\ LET uses == conversation_history[k - 1].content.tool_uses
                 results == conversation_history[k].content.tool_results
             IN  /\ Len(results) = Len(uses)
                 /\ \A i \in 1..Len(uses) : results[i] = ResultOf(uses[i])

\* a turn of three requests with three different results has been appended
C3_ThreeAppended ==
    \E k \in ResultTurns :
        LET results == conversation_history[k].content.tool_results
        IN  /\ Len(results) = 3
            /\ results[1] # results[2]
            /\ results[2] # results[3]
            /\ results[1] # results[3]

\* C4: every tool-result turn directly follows the assistant turn that
\* requested it and each result names its request by the invocation id;
\* tool results stand nowhere else.
C4_ResultReferencesRequest ==
    \A k \in ResultTurns :
        /\ k > 1
        /\ conversation_history[k].role = "user"
        /\ conversation_history[k - 1].role = "assistant"
        /\ LET uses == conversation_history[k - 1].content.tool_uses
               results == conversation_history[k].content.tool_results
           IN  /\ Len(results) = Len(uses)
               /\ \A i \in 1..Len(results) :
                      /\ "tool_use_id" \in DOMAIN results[i]
                      /\ results[i].tool_use_id = uses[i].id

\* C5: the loop ends (Idle, completion signalled) exactly when a response
\* holds no tool request; a response with requests leads to Dispatching and
\* from there back to Requesting, and the run ends in no other way.
C5_IdleIffNoRequests ==
    [][ /\ (pc = "Streaming" /\ response.tool_uses = <<>>) => pc' = "Idle"
        /\ (pc = "Streaming" /\ response.tool_uses # <<>>) => pc' = "Dispatching"
        /\ pc = "Dispatching" => pc' \in {"Dispatching", "Requesting"}
        /\ (pc \in {"Requesting", "Streaming", "Dispatching"}
            /\ pc' \notin {"Requesting", "Streaming", "Dispatching"})
           => (pc' = "Idle" /\ response.tool_uses = <<>>) ]_vars

\* C6: ToolRegistry.execute with a name that is not registered returns an
\* error result naming the tool, does not raise, and runs no prehook and no
\* tool.
C6_UnknownTool ==
    (lastCall.called /\ lastCall.name \notin Tools) =>
        /\ ~lastCall.raised
        /\ pc # "Raised"
        /\ lastCall.result.is_error
        /\ lastCall.result.content.msg = "Unknown tool"
        /\ lastCall.result.content.name = lastCall.name
        /\ ~lastCall.hookRan
        /\ ~lastCall.executed
        /\ lastCall.touched = {}

\* an unregistered tool was asked for
C6_UnknownCalled == lastCall.called /\ lastCall.name = "Nope"

FailsValidation(tool_use) ==
    /\ tool_use.name \in Prehooked
    /\ \E param \in {"file_path", "path"} \cap DOMAIN tool_use.input :
           Validate(workspace_dir, tool_use.input[param]).raised

DeniedResult(result) ==
    result.is_error /\ result.content.msg = "Access denied"

C9_EveryPathValidated ==
    lastCall.executed =>
        /\ ({"file_path", "path"} \cap DOMAIN lastCall.given # {}) => lastCall.hookRan
        /\ \A loc \in lastCall.touched : Within(loc, RootLoc)

\* C11: validate of a path whose canonical form is exactly the workspace
\* root ('.', the root's own absolute path) returns the root and does not
\* raise SecurityError.
C11_RootAccepted ==
    (validated.called /\ Denoted(path) = RootLoc) =>
        /\ ~validated.raised
        /\ validated.value = workspace_dir

\* the ids of a sequence of tool_uses
Ids(uses) == [i \in 1..Len(uses) |-> uses[i].id]

\* C12: every request of an assistant turn is handed to ToolRegistry.execute
\* exactly once and answered by exactly one result carrying its id: once the
\* turn has been dealt with, the calls made are the turn's requests, each
\* once, and the history ends with one result per request, each naming its
\* request's id.
C12_EachRequestOnce ==
    /\ \A i, j \in 1..Len(dispatched) : i # j => dispatched[i] # dispatched[j]
    /\ (pc \in {"Requesting", "Idle", "Raised"} /\ response.tool_uses # <<>>) =>
          /\ dispatched = Ids(response.tool_uses)
          /\ Len(conversation_history) \in ResultTurns
          /\ LET results ==
                     conversation_history[Len(conversation_history)].content.tool_results
             IN  /\ Len(results) = Len(response.tool_uses)
                 /\ \A i \in 1..Len(results) :
                        /\ "tool_use_id" \in DOMAIN results[i]
                        /\ results[i].tool_use_id = response.tool_uses[i].id

\* a response has been received in the run that ended or is under way
Received == response # NoResponse

LastTurn == conversation_history[Len(conversation_history)]

\* C13: every turn received from the completion service, the final one
\* without tool requests included, is appended as one assistant turn with
\* its text and tool requests, before any of its tool requests is
\* dispatched.
C13_TurnAppendedFirst ==
    /\ (pc \in {"Dispatching", "Raised"} /\ dispatched # <<>>) =>
          /\ LastTurn.role = "assistant"
          /\ LastTurn.content.text = response.text
          /\ Ids(LastTurn.content.tool_uses) = Ids(response.tool_uses)
    /\ (pc = "Idle" /\ Received) =>
          /\ LastTurn.role = "assistant"
          /\ LastTurn.content.text = response.text
          /\ LastTurn.content.tool_uses = <<>>

\* the turns of the history that are user messages
UserTexts == {k \in 1..Len(conversation_history) :
                 /\ conversation_history[k].role = "user"
                 /\ conversation_history[k].content.tool_results = <<>>}

\* the assistant turns of the history that hold tool requests
RequestTurns == {k \in 1..Len(conversation_history) :
                    conversation_history[k].content.tool_uses # <<>>}

\* C14: a single run in which the service issued exactly one tool request
\* and then a turn without tool requests has, when it ends in Idle, made one
\* dispatch cycle and appended after the user message exactly the
\* tool-request turn, the tool-result turn and the final assistant turn.
C14_ScriptedRun ==
    (/\ pc = "Idle"
     /\ Received
     /\ UserTexts = {1}
     /\ RequestTurns = {2}
     /\ Len(conversation_history[2].content.tool_uses) = 1) =>
        /\ Len(conversation_history) = 4
        /\ ResultTurns = {3}
        /\ Len(conversation_history[3].content.tool_results) = 1
        /\ conversation_history[4].role = "assistant"
        /\ conversation_history[4].content.text = response.text
        /\ conversation_history[4].content.tool_uses = <<>>

\* a history that ends at a fully appended turn: every turn of tool results
\* follows the assistant turn that requested them and answers all of its
\* requests, and every requesting turn is followed by its results
HistoryConsistent ==
    /\ \A k \in ResultTurns :
           /\ k > 1
           /\ conversation_history[k - 1].role = "assistant"
           /\ Len(conversation_history[k].content.tool_results) =
                  Len(conversation_history[k - 1].content.tool_uses)
    /\ \A k \in RequestTurns : k + 1 \in ResultTurns

\* C15: when the caller cancels, the tool execution in flight is terminated
\* (no subprocess of a cancelled BashTool.execute is still running) and the
\* conversation history of a cancelled run ends at a fully appended turn
C15_CancelTerminates ==
    /\ bash_pc = "Cancelled" => process # "running"
    /\ pc = "Cancelled" => HistoryConsistent

\* the history half of C15 alone
C15_CancelledHistory == pc = "Cancelled" => HistoryConsistent

\* a call that returned for a command running longer than the timeout that
\* was enforced
Overran ==
    /\ bash_pc = "Returned"
    /\ Duration(bash_input.command) > timeout_s * 1000

\* C16: a command that runs longer than its effective timeout makes the call
\* return an error result that mentions the timeout, no later than the
\* limit, and once the result is returned no process of the command runs
C16_TimeoutEndsProcess ==
    Overran =>
        /\ bash_result.is_error
        /\ bash_result.content = BashContent("Command timed out after", "", timeout_s)
        /\ returned_at <= timeout_s * 1000
        /\ process # "running"

\* the result half of C16 alone
C16_TimedOutResult ==
    Overran =>
        /\ bash_result = TimedOut(timeout_s)
        /\ returned_at = timeout_s * 1000

\* execute has handed a timeout to asyncio.wait_for
Enforcing == bash_pc \in {"Waiting", "Returned", "Cancelled"}

\* C17: the timeout the shell tool enforces never exceeds the hard maximum
\* of 600000 ms, whatever the caller supplies, and is the default of
\* 120000 ms when the caller supplies none
C17_TimeoutCapped ==
    Enforcing =>
        /\ timeout_s * 1000 <= MaxTimeout
        /\ "timeout" \notin DOMAIN bash_input => timeout_s * 1000 = DefaultTimeout

\* the default half of C17 alone
C17_DefaultTimeout ==
    (Enforcing /\ "timeout" \notin DOMAIN bash_input) =>
        timeout_s * 1000 = DefaultTimeout

\* the maximum iteration counts a host may want; run takes no such
\* parameter, so it behaves the same under each of them
HostCaps == 1..MaxHistory

\* C18: under a maximum iteration count set by the host, a run in which
\* every response requests tools stops after at most that many iterations
\* (and surfaces "max iterations reached" instead of going on)
C18_StopsAtMaxIterations ==
    \A max_iterations \in HostCaps : iterations <= max_iterations

\* C19: a failure of the completion call is retried by the loop, and the run
\* ends in the reported failure state only once the failures have exceeded
\* a retry budget: never on the first failure of the run
C19_FailureRetried == pc = "Failed" => failures > 1

\* the reporting half of C19 alone: a failed completion call ends the run
\* in the failure state, it is not swallowed
C19_FailureReported == [][failures' > failures => pc' = "Failed"]_vars

\* the directory of a session as a location
SessionRoot(s) == JoinRealPath(<<>>, Split(SessionDir(s)))

\* C20: two sessions share no mutable state: no tool invocation of one
\* session reaches a location in the workspace directory of another
C20_SessionsIsolated ==
    \A s, t \in Sessions :
        s # t => \A loc \in reached[s] : ~Within(loc, SessionRoot(t))

\* the history half of C20 alone: a step that adds to one session's history
\* leaves the history of every other session as it was
C20_OwnHistoryOnly ==
    [][\A s, t \in Sessions :
          (s # t /\ histories'[s] # histories[s]) => histories'[t] = histories[t]]_vars

\* C21: once the session is closed nothing it started is still running:
\* every outstanding tool execution was terminated and the sandbox of the
\* session was terminated before the session counted as closed
C21_NothingOutlivesSession ==
    session = "closed" =>
        /\ process # "running"
        /\ sandbox # "running"

\* a step of an evaluation task: it ends by saving or by logging
EvalStep == eval_saved' # eval_saved \/ eval_logged' # eval_logged

\* C22: submitting an evaluation does not suspend the loop (the final
\* response ends the run whether or not an evaluation was submitted and
\* however many are pending), and an evaluation that fails is only logged:
\* its steps change neither the conversation history nor the loop's state
C22_EvalsNeverBlock ==
    [][/\ (pc = "Streaming" /\ response.tool_uses = <<>> /\ pc' # pc) =>
              pc' \in {"Idle", "Cancelled"}
       /\ EvalStep => UNCHANGED agentVars]_vars

\* a run is under way while an earlier evaluation is still pending and
\* another one has failed and been logged
C22_PendingAndFailed ==
    /\ enabled
    /\ pc = "Dispatching"
    /\ eval_tasks > 0
    /\ eval_logged > 0

IsPrefix(s, t) == Len(s) <= Len(t) /\ SubSeq(t, 1, Len(s)) = s

\* C23: the conversation history only grows by appending: at every step the
\* history before the step is a prefix of the history after it, also from
\* one run of the session to the next
C23_AppendOnly ==
    [][IsPrefix(conversation_history, conversation_history')]_vars

\* a second run of the session is under way on top of the turns of a first
\* run that requested tools
C23_SecondRunOnFirst ==
    /\ pc = "Requesting"
    /\ Cardinality(UserTexts) = 2
    /\ ResultTurns # {}
    /\ conversation_history[Len(conversation_history)].role = "user"
    /\ Len(conversation_history) \in UserTexts

\* the number of places at which t occurs in s
Occurrences(s, t) == Cardinality({i \in 1..Len(s) : MatchAt(s, t, i)})

\* an Edit call was made on a file that was there
Edited == tool_done /\ tool_call.tool = "Edit" /\ file_was.exists

ReplaceAllAsked ==
    /\ "replace_all" \in DOMAIN tool_call.input
    /\ tool_call.input.replace_all

\* C24: an edit whose target occurs nowhere in the file fails with a
\* "not found" error, an edit without replace_all whose target occurs N > 1
\* times fails with an error that states N, and both leave the file as it was
C24_AmbiguityReported ==
    Edited =>
        LET n == Occurrences(file_was.content, tool_call.input.old_string)
        IN  /\ n = 0 =>
                  /\ tool_out = Out("String not found in file", 0, "True")
                  /\ tool_file = file_was
            /\ (n > 1 /\ ~ReplaceAllAsked) =>
                  /\ tool_out = Out("String appears n times", n, "True")
                  /\ tool_file = file_was

\* C24 with the matches counted as str.count counts them, without overlap
C24_CountedWithoutOverlap ==
    Edited =>
        LET n == Count(file_was.content, tool_call.input.old_string)
        IN  /\ n = 0 =>
                  /\ tool_out = Out("String not found in file", 0, "True")
                  /\ tool_file = file_was
            /\ (n > 1 /\ ~ReplaceAllAsked) =>
                  /\ tool_out = Out("String appears n times", n, "True")
                  /\ tool_file = file_was

\* C25 as stated: an edit with replace_all on a file that contains the
\* target succeeds and leaves no occurrence of the target in the file
C25_ReplaceAllLeavesNone ==
    (Edited /\ ReplaceAllAsked
     /\ Contains(file_was.content, tool_call.input.old_string)) =>
        /\ tool_out.is_error = "False"
        /\ Occurrences(tool_file.content, tool_call.input.old_string) = 0

\* the two strings have no character in common
Disjoint(t, u) == \A i \in 1..Len(t), j \in 1..Len(u) : t[i] # u[j]

\* C25 amended: an edit with replace_all on a file that contains the
\* target succeeds, and leaves no occurrence of the target in the file when
\* the new string is not empty and has no character in common with the target
C25_ReplaceAllDisjoint ==
    (Edited /\ ReplaceAllAsked
     /\ Contains(file_was.content, tool_call.input.old_string)) =>
        /\ tool_out.is_error = "False"
        /\ (tool_call.input.new_string # <<>>
            /\ Disjoint(tool_call.input.old_string, tool_call.input.new_string)) =>
               Occurrences(tool_file.content, tool_call.input.old_string) = 0

\* a replace_all edit has replaced two occurrences of the target by a new
\* string that shares no character with it
C25_TwoReplaced ==
    /\ Edited
    /\ ReplaceAllAsked
    /\ Occurrences(file_was.content, tool_call.input.old_string) = 2
    /\ tool_call.input.new_string # <<>>
    /\ Disjoint(tool_call.input.old_string, tool_call.input.new_string)
    /\ tool_out.is_error = "False"
    /\ tool_file # file_was
    /\ Occurrences(tool_file.content, tool_call.input.old_string) = 0

\* a write of a content larger than the size cap was called
Oversized(tool) ==
    /\ tool_done
    /\ tool_call.tool = tool
    /\ Len(tool_call.input.content) > SizeCap

\* C26: a file-write whose content exceeds the size cap returns an error
\* result and leaves the file as it was: not created, not written in part,
\* not truncated
C26_OversizedWriteRejected ==
    Oversized("Write") =>
        /\ tool_out.is_error = "True"
        /\ tool_file = file_was

\* C26 for sandbox_write_file alone
C26_SandboxWriteCapped ==
    Oversized("sandbox_write_file") =>
        /\ tool_out.is_error = "True"
        /\ tool_file = file_was

\* a Glob or a Grep was called
Searched == tool_done /\ tool_call.tool \in {"Glob", "Grep"}

\* C27: a search without matches returns a result that says so and whose
\* is_error is the boolean false, a search with a malformed pattern returns
\* is_error true, and is_error is always a boolean
C27_NoMatchIsNotError ==
    Searched =>
        /\ tool_call.input.pattern = <<"z">> =>
               /\ tool_out.is_error = "False"
               /\ tool_out.content.msg \in {"No files found", "No matches found"}
        /\ tool_call.input.pattern = <<"[">> => tool_out.is_error = "True"
        /\ tool_out.is_error \in {"True", "False"}

\* the part of C27 that holds: no matches is reported as such and is not
\* marked as an error, and rg's failure on a malformed regex is an error
C27_NoMatchReported ==
    Searched =>
        /\ tool_call.input.pattern = <<"z">> =>
               /\ tool_out.is_error # "True"
               /\ tool_out.content.msg \in {"No files found", "No matches found"}
        /\ (tool_call.tool = "Grep" /\ tool_call.input.pattern = <<"[">>) =>
               tool_out.is_error = "True"

\* ------------------------------------------------ registering the tools

MaxRegistered == 3

\* the tools an agent's constructor may hand to register: core tools, and
\* proxies for the tools of the MCP servers it was given
CoreTool(cls) == [cls |-> cls, mcp_name |-> "", tool_name |-> ""]
Proxy(mcp_name, tool_name) ==
    [cls |-> "MCPToolProxy", mcp_name |-> mcp_name, tool_name |-> tool_name]
McpNames == {"a", "a__b"}
McpToolNames == {"c", "b__c"}
Registrable ==
    {CoreTool("Bash"), CoreTool("Read")}
        \cup {Proxy(m, t) : m \in McpNames, t \in McpToolNames}

\* tool.name: the class attribute of a core tool, the property of a proxy
ToolName(tool) ==
    IF tool.cls = "MCPToolProxy"
    THEN ProxyName(tool.mcp_name, tool.tool_name)
    ELSE tool.cls

\* ToolRegistry.register: self.tools[tool.name] = tool
Register(tool) ==
    /\ Len(registered) < MaxRegistered
    /\ tools' = [n \in DOMAIN tools \cup {ToolName(tool)} |->
                    IF n = ToolName(tool) THEN tool ELSE tools[n]]
    /\ registered' = Append(registered, tool)
    /\ UNCHANGED exceptReg

InitRegistry ==
    /\ workspace_dir \in {PathValidatorInit(d) : d \in WorkspaceDirs}
    /\ path = <<>>
    /\ validated = NotCalled
    /\ revalidated = NotCalled
    /\ InitAgent
    /\ BashIdle
    /\ NoSessions
    /\ InitContext
    /\ EvalsOff
    /\ NoToolCall
    /\ NoRegistry
    /\ NoTodos
    /\ FreshWorkspace
    /\ NoCleanup
    /\ NoChat
    /\ NoEvents

NextRegistry == \E tool \in Registrable : Register(tool)

SpecRegistry == InitRegistry /\ [][NextRegistry]_vars

\* ------------------------------------------------------ the todo list

MaxTodos == 2

\* the entries a TodoWrite input may carry (schema: content, status)
TodoEntries ==
    [content : {"a"}, status : {"pending", "in_progress", "completed"}]
TodoLists == UNION {[1..n -> TodoEntries] : n \in 0..MaxTodos}
TodoInputs == [todos : TodoLists]

\* sum(1 for t in self.todos if t["status"] == "in_progress")
InProgressCount(list) ==
    Cardinality({i \in 1..Len(list) : list[i].status = "in_progress"})

\* a TodoWriteTool that adds the input to the list it holds
TodoExecuteMerged(was, input) ==
    LET now == was \o input.todos
    IN  [todos |-> now,
         out |-> IF InProgressCount(now) > 1
                 THEN Out("Warning: More than one task marked as in_progress",
                          0, "False")
                 ELSE Out("Todos have been modified successfully", 0, "False")]

\* TodoWriteTool.execute
TodoExecute(was, input) ==
    LET now == input.todos
    IN  [todos |-> now,
         out |-> IF InProgressCount(now) > 1
                 THEN Out("Warning: More than one task marked as in_progress",
                          0, "False")
                 ELSE Out("Todos have been modified successfully", 0, "False")]

\* a TodoWrite call
TodoWrite(input) ==
    /\ LET done == TodoExecute(todos, input)
       IN  /\ todos' = done.todos
           /\ todo_out' = done.out
    /\ todos_was' = todos
    /\ todo_input' = input
    /\ UNCHANGED exceptTodo

NextTodos == \E input \in TodoInputs : TodoWrite(input)

\* TodoWriteTool.__init__, everything else at rest
InitTodos == InitRegistry

SpecTodos == InitTodos /\ [][NextTodos]_vars

\* ------------------------------------- file tools, one call after another

MaxOps == 3

NotesTxt == <<"n", "o", "t", "e", "s", ".", "t", "x", "t">>
Draft == <<"d", "r", "a", "f", "t">>
Final == <<"f", "i", "n", "a", "l">>

\* the calls an agent makes on notes.txt
NoteCalls ==
    {[tool |-> "Write", input |-> [file_path |-> NotesTxt, content |-> c]] :
        c \in {Draft, Final}}
    \cup {[tool |-> "Edit",
           input |-> [file_path |-> NotesTxt, old_string |-> t, new_string |-> u]] :
        t \in {Draft, Final}, u \in {Draft, Final}}
    \cup {[tool |-> "Read", input |-> [file_path |-> NotesTxt]]}

\* tool.execute(input) of the three file tools, on the file as it is now
NoteExecute(file, call) ==
    CASE call.tool = "Write" -> WriteExecute(file, call.input)
      [] call.tool = "Edit" -> EditExecute(file, call.input)
      [] call.tool = "Read" -> [out |-> ReadExecute(file, call.input), file |-> file]

\* one call on notes.txt
NoteCall(call) ==
    /\ Len(calls) < MaxOps
    /\ LET done == NoteExecute(notes, call)
       IN  /\ notes' = done.file
           /\ outcomes' = Append(outcomes, done.out)
    /\ calls' = Append(calls, call)
    /\ UNCHANGED exceptNote

InitNotes == InitRegistry

NextNotes == \E call \in NoteCalls : NoteCall(call)

SpecNotes == InitNotes /\ [][NextNotes]_vars

\* ------------------------------- the events of a run of ResearchAgent

MaxEvents == 5       \* most events of one run
MaxTurns == 2        \* most iterations of the loop of one run

Event(type, turn) == [type |-> type, turn |-> turn]

\* run(user_message): the user message is appended and the loop entered
\* with the first stream opened
EventRun ==
    /\ ev_pc = "Idle"
    /\ ev_pc' = "Streaming"
    /\ ev_turn' = 1
    /\ ev_left' = 0
    /\ events' = <<>>
    /\ UNCHANGED exceptEvent

\* content_block_start of a text block: yield {"type": "text_start"}
TextStart ==
    /\ ev_pc = "Streaming"
    /\ Len(events) < MaxEvents
    /\ events' = Append(events, Event("text_start", ev_turn))
    /\ UNCHANGED <<ev_pc, ev_left, ev_turn>>
    /\ UNCHANGED exceptEvent

\* content_block_delta with a text_delta: yield {"type": "text_delta", ...}
TextDelta ==
    /\ ev_pc = "Streaming"
    /\ Len(events) < MaxEvents
    /\ events' = Append(events, Event("text_delta", ev_turn))
    /\ UNCHANGED <<ev_pc, ev_left, ev_turn>>
    /\ UNCHANGED exceptEvent

\* content_block_stop of a tool_use block: tool_uses.append(...)
ToolUseBlock ==
    /\ ev_pc = "Streaming"
    /\ ev_left < MaxTools
    /\ ev_left' = ev_left + 1
    /\ UNCHANGED <<events, ev_pc, ev_turn>>
    /\ UNCHANGED exceptEvent

\* the stream ends: without tool uses the loop is left and
\* yield {"type": "done"} reached, else the tools are executed
StreamEnds ==
    /\ ev_pc = "Streaming"
    /\ IF ev_left = 0
       THEN /\ ev_pc' = "Done"
            /\ events' = Append(events, Event("done", ev_turn))
       ELSE /\ ev_pc' = "Dispatching"
            /\ UNCHANGED events
    /\ UNCHANGED <<ev_left, ev_turn>>
    /\ UNCHANGED exceptEvent

\* the messages.stream call or the iteration over it raises: nothing in run
\* catches it, the generator ends with the exception
StreamRaises ==
    /\ ev_pc = "Streaming"
    /\ ev_pc' = "Raised"
    /\ UNCHANGED <<events, ev_left, ev_turn>>
    /\ UNCHANGED exceptEvent

\* result = await self._execute_tool(tool_use), then
\* yield {"type": "tool_execution", ...}
ToolExecution ==
    /\ ev_pc = "Dispatching"
    /\ ev_left > 0
    /\ Len(events) < MaxEvents
    /\ ev_left' = ev_left - 1
    /\ events' = Append(events, Event("tool_execution", ev_turn))
    /\ UNCHANGED <<ev_pc, ev_turn>>
    /\ UNCHANGED exceptEvent

\* _execute_tool raises (ToolRegistry.execute awaits the tool's execute
\* with no try around it): the generator ends with the exception
ToolExecutionRaises ==
    /\ ev_pc = "Dispatching"
    /\ ev_left > 0
    /\ ev_pc' = "Raised"
    /\ UNCHANGED <<events, ev_left, ev_turn>>
    /\ UNCHANGED exceptEvent

\* the tool results are appended and the loop goes round
NextTurn ==
    /\ ev_pc = "Dispatching"
    /\ ev_left = 0
    /\ ev_turn < MaxTurns
    /\ ev_pc' = "Streaming"
    /\ ev_turn' = ev_turn + 1
    /\ UNCHANGED <<events, ev_left>>
    /\ UNCHANGED exceptEvent

InitEvents == InitRegistry

NextEvents ==
    \/ EventRun
    \/ TextStart
    \/ TextDelta
    \/ ToolUseBlock
    \/ StreamEnds
    \/ StreamRaises
    \/ ToolExecution
    \/ ToolExecutionRaises
    \/ NextTurn

SpecEvents == InitEvents /\ [][NextEvents]_vars

\* ---------------------------------------------------- the chat client

MaxAttempts == 3     \* most calls of sendMessage
MaxMessages == 3     \* most messages displayed

\* const ServerState
ServerStates == {"idle", "processing", "streaming", "waiting_input"}

\* what the user may have in the input
InputValues == {<<>>, <<Space>>, <<"h", "i">>, <<Space, "h", "i", Space>>}

\* String.prototype.trim
RECURSIVE TrimLeft(_)
TrimLeft(s) == IF s # <<>> /\ Head(s) = Space THEN TrimLeft(Tail(s)) ELSE s
RECURSIVE TrimRight(_)
TrimRight(s) ==
    IF s # <<>> /\ s[Len(s)] = Space THEN TrimRight(SubSeq(s, 1, Len(s) - 1)) ELSE s
Trim(s) == TrimRight(TrimLeft(s))

\* a client that does not look at the server state
CanSendAlways(state) == TRUE

\* const canSend = serverState === IDLE || serverState === WAITING_INPUT
CanSend(state) == state \in {"idle", "waiting_input"}

\* addMessage(role, text)
AddMessage(list, role, text) == Append(list, [role |-> role, text |-> text])

\* onChange: setInputValue(e.target.value)
SetInputValue(value) ==
    /\ inputValue' = value
    /\ UNCHANGED <<serverState, messages, sent, attempts>>
    /\ UNCHANGED exceptChat

\* handleMessage, case 'state': setServerState(data.value)
HandleState(value) ==
    /\ serverState' = value
    /\ UNCHANGED <<inputValue, messages, sent, attempts>>
    /\ UNCHANGED exceptChat

\* handleMessage, case 'output': addMessage('assistant', data.text)
HandleOutput ==
    /\ Len(messages) < MaxMessages
    /\ messages' = AddMessage(messages, "assistant", <<"o", "k">>)
    /\ UNCHANGED <<inputValue, serverState, sent, attempts>>
    /\ UNCHANGED exceptChat

\* sendMessage
SendMessage ==
    /\ attempts < MaxAttempts
    /\ Len(messages) < MaxMessages
    /\ attempts' = attempts + 1
    /\ IF Trim(inputValue) = <<>>
       THEN UNCHANGED <<inputValue, messages, sent>>
       ELSE IF ~CanSend(serverState)
       THEN /\ messages' = AddMessage(messages, "system", <<"Cannot send">>)
            /\ UNCHANGED <<inputValue, sent>>
       ELSE /\ messages' = AddMessage(messages, "user", inputValue)
            /\ sent' = Append(sent, inputValue)
            /\ inputValue' = <<>>
    /\ UNCHANGED serverState
    /\ UNCHANGED exceptChat

InitChat == InitRegistry

NextChat ==
    \/ \E value \in InputValues : SetInputValue(value)
    \/ \E value \in ServerStates : HandleState(value)
    \/ HandleOutput
    \/ SendMessage

SpecChat == InitChat /\ [][NextChat]_vars

\* ----------------------------------------------- cleanup-containers.sh

MaxRuns == 2      \* most runs of the script
MaxLines == 2     \* most lines of the tracking file

ContainerIds == {"a", "b"}

\* the order docker ps lists the containers in
IdOrder == <<"a", "b">>

ContainerStates == {"absent", "running", "exited"}

\* no file at $CONTAINER_TRACKING_FILE
NoTrackingFile == [exists |-> FALSE, lines |-> <<>>, terminated |-> TRUE]

\* the tracking files: one container id or nothing on a line, the last
\* line ended by a newline or not
TrackingLines ==
    UNION {[1..n -> ContainerIds \cup {""}] : n \in 0..MaxLines}
TrackingFiles ==
    {[exists |-> TRUE, lines |-> l, terminated |-> t] :
        l \in TrackingLines, t \in BOOLEAN} \ 
    {[exists |-> TRUE, lines |-> <<>>, terminated |-> FALSE]}

\* which docker stop and docker rm commands of a run fail of themselves
Failures == [ContainerIds -> [stop : BOOLEAN, rm : BOOLEAN]]

\* the failures of the commands run on the containers ids: no command is
\* run on another container
FailuresOn(ids) ==
    {fails \in Failures :
        \A id \in ContainerIds \ ids : ~fails[id].stop /\ ~fails[id].rm}

\* the containers a tracking file names
Tracked(file) == {file.lines[i] : i \in 1..Len(file.lines)} \ {""}

\* docker stop: the exit status and the containers after it
DockerStop(c, id, fails) ==
    IF c[id] = "absent" \/ fails
    THEN [rc |-> 1, containers |-> c]
    ELSE [rc |-> 0, containers |-> [c EXCEPT ![id] = "exited"]]

\* docker rm, without -f: a running container is not removed
DockerRm(c, id, fails) ==
    IF c[id] # "exited" \/ fails
    THEN [rc |-> 1, containers |-> c]
    ELSE [rc |-> 0, containers |-> [c EXCEPT ![id] = "absent"]]

\* a command left to fail under set -e
OrTrueLeftOut(rc) == rc

\* command || true
OrTrue(rc) == 0

\* one command of the script under set -e: the script goes on only while
\* no command has ended it
Command(st, out) ==
    IF st.exit # -1 THEN st
    ELSE [st EXCEPT !.containers = out.containers,
                    !.failed = st.failed \/ out.rc # 0,
                    !.exit = IF OrTrue(out.rc) # 0 THEN OrTrue(out.rc) ELSE -1]

\* docker stop "$CONTAINER_ID" || true; docker rm "$CONTAINER_ID" || true
StopAndRemove(st, id, fails) ==
    LET stopped == Command(st, DockerStop(st.containers, id, fails[id].stop))
    IN Command(stopped, DockerRm(stopped.containers, id, fails[id].rm))

\* Method 1: for CONTAINER_ID in $(docker ps -aq --filter label=run_id=...)
RECURSIVE ByLabel(_, _, _, _)
ByLabel(st, ids, listed, fails) ==
    IF ids = <<>> THEN st
    ELSE ByLabel(IF Head(ids) \in listed
                   THEN StopAndRemove(st, Head(ids), fails) ELSE st,
                 Tail(ids), listed, fails)

\* the lines while read -r takes: a last line without its newline is not one
LinesRead(file) ==
    IF file.terminated THEN file.lines
    ELSE SubSeq(file.lines, 1, Len(file.lines) - 1)

\* Method 2, the loop: a line that is not empty and names a container that
\* docker ps -aq still lists
RECURSIVE ByFile(_, _, _)
ByFile(st, lines, fails) ==
    IF lines = <<>> THEN st
    ELSE ByFile(IF Head(lines) # "" /\ st.containers[Head(lines)] # "absent"
                  THEN StopAndRemove(st, Head(lines), fails) ELSE st,
                Tail(lines), fails)

\* the whole script: both methods, rm -f of the tracking file, exit 0
CleanupContainers(c, lab, file, fails1, fails2) ==
    LET start == [containers |-> c, tracking |-> file, failed |-> FALSE,
                  exit |-> -1]
        listed == {id \in lab : c[id] # "absent"}
        one == ByLabel(start, IdOrder, listed, fails1)
        two == IF ~file.exists THEN one
               ELSE LET looped == ByFile(one, LinesRead(file), fails2)
                    IN IF looped.exit # -1 THEN looped
                       ELSE [looped EXCEPT !.tracking = NoTrackingFile]
    IN IF two.exit # -1 THEN two ELSE [two EXCEPT !.exit = 0]

\* bash cleanup-containers.sh
RunCleanup ==
    /\ Len(cleanup_log) < MaxRuns
    /\ \E fails1 \in FailuresOn(labelled),
          fails2 \in FailuresOn(Tracked(tracking)) :
         LET run == CleanupContainers(containers, labelled, tracking,
                                      fails1, fails2)
         IN /\ containers' = run.containers
            /\ tracking' = run.tracking
            /\ cleanup_log' = Append(cleanup_log,
                   [before |-> [containers |-> containers,
                                tracking |-> tracking],
                    after |-> [containers |-> run.containers,
                               tracking |-> run.tracking],
                    failed |-> run.failed,
                    exit |-> run.exit])
    /\ UNCHANGED labelled
    /\ UNCHANGED exceptCleanup

\* any containers, labelled or not, with or without a tracking file
InitCleanup ==
    /\ workspace_dir \in {PathValidatorInit(d) : d \in WorkspaceDirs}
    /\ path = <<>>
    /\ validated = NotCalled
    /\ revalidated = NotCalled
    /\ InitAgent
    /\ BashIdle
    /\ NoSessions
    /\ InitContext
    /\ EvalsOff
    /\ NoToolCall
    /\ NoRegistry
    /\ NoTodos
    /\ FreshWorkspace
    /\ NoEvents
    /\ NoChat
    /\ containers \in [ContainerIds -> ContainerStates]
    /\ labelled \in SUBSET ContainerIds
    /\ tracking \in TrackingFiles \cup {NoTrackingFile}
    /\ cleanup_log = <<>>

NextCleanup == RunCleanup

SpecCleanup == InitCleanup /\ [][NextCleanup]_vars

\* C28: a proxy call whose wrapped function raises returns an error result
\* in the envelope of every tool; the exception does not leave the proxy
C28_ProxyCatches ==
    (tool_done /\ tool_call.tool = ProxyName("bigquery", "query")
     /\ ToolFnRaises(tool_call.input)) =>
        /\ ~tool_raised
        /\ tool_out.is_error = "True"

\* C29: tool names are unique within a registry: every tool that was
\* registered is still the tool found under its name, so no registration has
\* replaced a different tool registered under the same name
C29_EveryRegisteredToolKept ==
    \A i \in 1..Len(registered) :
        tools[ToolName(registered[i])] = registered[i]

\* the part of C29 about core tools: the name of a proxy starts with mcp__,
\* so registering proxies never replaces a core tool
C29_CoreToolNeverShadowed ==
    \A i \in 1..Len(registered) :
        registered[i].cls # "MCPToolProxy" =>
            tools[ToolName(registered[i])] = registered[i]

\* a proxy was registered after a core tool
C29_ProxyAfterCore ==
    \E i, j \in 1..Len(registered) :
        /\ i < j
        /\ registered[i].cls # "MCPToolProxy"
        /\ registered[j].cls = "MCPToolProxy"

C31_ValidateIdempotent ==
    revalidated.called =>
        /\ ~revalidated.raised
        /\ revalidated.value = validated.value

\* a path that was not canonical (it differs from what validate returned for
\* it) was validated, and the returned path validated again
C31_ValidatedTwice ==
    /\ revalidated.called
    /\ ~revalidated.raised
    /\ validated.value # path

\* a Read call was made on a file that was there
ReadDone == tool_done /\ tool_call.tool = "Read" /\ file_was.exists

ReadOffset == IF "offset" \in DOMAIN tool_call.input THEN tool_call.input.offset ELSE 0
ReadLimit ==
    IF "limit" \in DOMAIN tool_call.input THEN tool_call.input.limit ELSE DefaultLimit

\* the lines i..last of a file, each after its own number in the file; a
\* line over the cap is given whole, or cut as the tool cuts it
RECURSIVE NumberedLines(_, _, _, _)
NumberedLines(lines, i, last, whole) ==
    IF i > last THEN <<>>
    ELSE PadLeft(Digits(i), 6) \o <<Arrow>>
             \o (IF whole THEN lines[i] ELSE CutLine(lines[i]))
             \o NumberedLines(lines, i + 1, last, whole)

C34_LineCut ==
    /\ ReadDone
    /\ \E i \in 1..Len(ReadLines(file_was.content)) :
           /\ i > ReadOffset
           /\ i <= ReadOffset + ReadLimit
           /\ Len(ReadLines(file_was.content)[i]) > LineCap

\* write "draft" to notes.txt, replace "draft" by "final", read notes.txt
Scenario ==
    << [tool |-> "Write", input |-> [file_path |-> NotesTxt, content |-> Draft]],
       [tool |-> "Edit",
        input |-> [file_path |-> NotesTxt, old_string |-> Draft, new_string |-> Final]],
       [tool |-> "Read", input |-> [file_path |-> NotesTxt]] >>

\* the first n calls made are the first n of the scenario
Played(n) == Len(calls) >= n /\ SubSeq(calls, 1, n) = SubSeq(Scenario, 1, n)

\* the write of the scenario succeeds with a "created" message and the edit
\* succeeds and leaves "final" as the whole content of the file
WriteThenEdit ==
    /\ Played(1) =>
           /\ outcomes[1].is_error = "False"
           /\ outcomes[1].content.msg = "File created successfully"
    /\ Played(2) =>
           /\ outcomes[2].is_error = "False"
           /\ Len(calls) = 2 => notes = [exists |-> TRUE, content |-> Final]

\* C32 as stated: in a fresh workspace the scenario yields a success with a
\* "created" message, a success that leaves "final" as the content of the
\* file, and a read result that is the line 1>final and nothing else
C32_ReadsBareNumber ==
    /\ WriteThenEdit
    /\ Played(3) =>
           /\ outcomes[3].is_error = "False"
           /\ outcomes[3].content.text = <<"1", Arrow>> \o Final

\* C32 amended: the read result is the single line "final" after its number
\* 1, the number right-aligned in six columns
C32_ReadsAlignedNumber ==
    /\ WriteThenEdit
    /\ Played(3) =>
           /\ outcomes[3].is_error = "False"
           /\ outcomes[3].content.n = 1
           /\ outcomes[3].content.text =
                  <<Space, Space, Space, Space, Space, "1", Arrow>> \o Final

\* the three calls of the scenario were made
C32_ScenarioPlayed == Played(3)

\* what the command of the call wrote to stdout and stderr together
Produced == StdoutLen(bash_input.command) + StderrLen(bash_input.command)

\* execute returned the output of its command
OutputReturned == bash_pc = "Returned" /\ bash_result.content.msg = "output"

\* C33: output over the budget is returned cut to the budget and with a
\* truncation marker; output within the budget is returned whole, unmarked
C33_OutputCutToBudget ==
    OutputReturned =>
        IF Produced > OutputBudget
        THEN /\ bash_result.content.marked
             /\ bash_result.content.len < Produced
        ELSE /\ ~bash_result.content.marked
             /\ bash_result.content.len = Produced

\* the half of C33 that holds: output within the budget is returned whole
C33_SmallOutputWhole ==
    (OutputReturned /\ Produced <= OutputBudget) =>
        /\ ~bash_result.content.marked
        /\ bash_result.content.len = Produced

\* a command with some output within the budget has returned
C33_SmallOutputReturned ==
    OutputReturned /\ Produced > 0 /\ Produced <= OutputBudget

\* run has given control back to its caller: it completed, a tool raised,
\* the completion service failed, or the caller cancelled it
RunReturned == pc \in {"Idle", "Raised", "Failed", "Cancelled"}

HookThenTool ==
    /\ lastCall.called
    /\ lastCall.hookRan
    /\ ~lastCall.hookRaised
    /\ lastCall.executed

\* C36: after a prehook that succeeded, the tool's execute is given the
\* parameters as the prehook left them: each path parameter is the path
\* that validate returned for the caller's value
C36_ExecuteGetsHookedInput ==
    HookThenTool =>
        /\ lastCall.received = lastCall.input
        /\ DOMAIN lastCall.received = DOMAIN lastCall.given
        /\ \A param \in DOMAIN lastCall.given :
               lastCall.received[param] =
                   IF param \in {"file_path", "path"}
                   THEN Validate(workspace_dir, lastCall.given[param]).value
                   ELSE lastCall.given[param]

\* a tool ran on a path that its prehook had changed
C36_PathChangedByHook ==
    /\ HookThenTool
    /\ "file_path" \in DOMAIN lastCall.given
    /\ lastCall.received.file_path # lastCall.given.file_path

Terminal == {"done", "error"}
TerminalEvents == {i \in 1..Len(events) : events[i].type \in Terminal}

\* the generator of the run has ended, by returning or with an exception
StreamOver == ev_pc \in {"Done", "Raised"}

\* within a turn the text events come before the tool executions
TextBeforeTools ==
    \A i, j \in 1..Len(events) :
        (/\ events[i].turn = events[j].turn
         /\ events[i].type = "tool_execution"
         /\ events[j].type \in {"text_start", "text_delta"}) => j < i

\* C37: the event stream of a run that is over ends with exactly one
\* terminal event, done or error, with no event after it, and within a turn
\* all text events come before the tool executions
C37_OneTerminalEvent ==
    /\ StreamOver =>
           /\ Cardinality(TerminalEvents) = 1
           /\ Len(events) \in TerminalEvents
    /\ TextBeforeTools

\* the part of C37 that holds: a run that completes ends its stream with
\* the one done event, and text comes before tool executions in every turn
C37_CompletedRunEndsWithDone ==
    /\ ev_pc = "Done" =>
           /\ TerminalEvents = {Len(events)}
           /\ events[Len(events)].type = "done"
    /\ TextBeforeTools

\* a run completed in its second turn, after text and a tool execution
C37_DoneAfterToolTurn ==
    /\ ev_pc = "Done"
    /\ ev_turn = 2
    /\ \E i, j \in 1..Len(events) :
           /\ events[i].type = "text_delta"
           /\ events[j].type = "tool_execution"

C39_SendsOnlyWhenReady ==
    [][ /\ sent' # sent =>
             /\ inputValue # <<>>
             /\ serverState \in {"idle", "waiting_input"}
             /\ sent' = Append(sent, inputValue)
        /\ (attempts' # attempts
            /\ serverState \notin {"idle", "waiting_input"}) =>
             /\ sent' = sent
             /\ inputValue' = inputValue
             /\ \/ messages' = messages
                \/ /\ Len(messages') = Len(messages) + 1
                   /\ SubSeq(messages', 1, Len(messages)) = messages
                   /\ messages'[Len(messages')].role = "system" ]_vars

\* a message was sent, and a later call of sendMessage was turned down with
\* a notice while the server was busy, the text staying in the input
C39_SentThenTurnedDown ==
    /\ Len(sent) = 1
    /\ Len(messages) = 2
    /\ messages[1].role = "user"
    /\ messages[2].role = "system"
    /\ inputValue # <<>>
    /\ serverState \in {"processing", "streaming"}

\* the run before run i of the script
RunBefore(i) == cleanup_log[i - 1]

C40_SecondRunFinishedTheFirst ==
    /\ Len(cleanup_log) = 2
    /\ cleanup_log[1].failed
    /\ cleanup_log[2].after # cleanup_log[2].before
====
